---- MODULE Spec2Model ----
(***************************************************************************)
(* Verification model of the design2wp layout-to-markup compiler           *)
(* (src/converter.py).  Every converter and builder is a pure function of  *)
(* its arguments; the model is a call machine: `input` is the argument of  *)
(* the call in flight, `pc` its position ("call" before the function body  *)
(* ran, "done" after it returned) and `output` the returned markup.        *)
(*                                                                         *)
(* Markup is kept structured instead of flattened to characters:           *)
(*   - an inline style string  "a:1;b:2"  is the sequence of its           *)
(*     declarations  << <<"a","1">>, <<"b","2">> >>  (";".join(parts));    *)
(*   - a class attribute is the sequence of its classes (" ".join);        *)
(*   - a JSON attribute blob is the sequence of its <<path, value>>        *)
(*     entries in insertion order;                                         *)
(*   - a block is a record  [block, attrs, tag, classes, css, text, inner] *)
(*     (the image, button and cover blocks carry a few fields more);       *)
(*   - a string holding several blocks joined by a blank line is the       *)
(*     sequence of those blocks, the empty string the empty sequence.      *)
(* A Python dict is the sequence of its <<key, value>> items in insertion  *)
(* order.                                                                  *)
(***************************************************************************)
EXTENDS Integers, Sequences, FiniteSets, TLC

VARIABLES fn, pc, input, output

vars == <<fn, pc, input, output>>

(***************************************************************************)
(* Python values                                                           *)
(***************************************************************************)
\* Python's None in a string-typed position.
None == "None"
\* A key that is missing from a dict (dict.get then yields its default).
Absent == "<absent>"
\* None and a missing key in a dict-typed position (padding, background).
DictNone == << <<None, None>> >>
DictAbsent == << <<Absent, Absent>> >>

\* bool(v) for a string-or-None value: None and "" are falsy.
Truthy(v) == v # None /\ v # Absent /\ v # ""
\* bool(d) for a dict-or-None value: None and {} are falsy.
TruthyDict(d) == d # DictNone /\ d # DictAbsent /\ d # <<>>

\* x or default
Or(x, default) == IF Truthy(x) THEN x ELSE default

\* [x] if cond else []
SeqIf(cond, s) == IF cond THEN s ELSE <<>>

\* k in d
HasKey(d, k) == \E i \in 1..Len(d) : d[i][1] = k
\* d[k]
Item(d, k) == d[CHOOSE i \in 1..Len(d) : d[i][1] = k][2]
\* d.get(k, default)
DictGet(d, k, default) == IF HasKey(d, k) THEN Item(d, k) ELSE default
\* {**d, k: v}: an existing key keeps its position, a new key is appended.
DictSet(d, k, v) ==
    IF HasKey(d, k)
    THEN [i \in 1..Len(d) |-> IF d[i][1] = k THEN <<k, v>> ELSE d[i]]
    ELSE Append(d, <<k, v>>)

\* section.get(k) / section.get(k, default) on a record whose missing keys
\* hold Absent.
Get(v) == IF v = Absent THEN None ELSE v
GetOr(v, default) == IF v = Absent THEN default ELSE v
GetDict(v) == IF v = DictAbsent THEN DictNone ELSE v
GetDictOr(v, default) == IF v = DictAbsent THEN default ELSE v

(***************************************************************************)
(* _build_css (src/converter.py 27-50)                                     *)
(***************************************************************************)
\* f"{prop}:{value}"
Decl(prop, value) == <<prop, value>>

\* ("top", "right", "bottom", "left")
PADDING_SIDES == <<"top", "right", "bottom", "left">>

\* for side in ("top","right","bottom","left"): if side in padding: ...
RECURSIVE padding_css_from(_, _)
padding_css_from(padding, i) ==
    IF i > Len(PADDING_SIDES) THEN <<>>
    ELSE SeqIf(HasKey(padding, PADDING_SIDES[i]),
               <<Decl("padding-" \o PADDING_SIDES[i],
                      Item(padding, PADDING_SIDES[i]))>>)
         \o padding_css_from(padding, i + 1)

padding_css(padding) == padding_css_from(padding, 1)

build_css(border_color, border_width, border_radius, color, background_color, min_height, padding, font_size) ==
       SeqIf(Truthy(border_color), <<Decl("border-color", border_color)>>)
    \o SeqIf(Truthy(border_width), <<Decl("border-width", border_width)>>)
    \o SeqIf(Truthy(border_radius), <<Decl("border-radius", border_radius)>>)
    \o SeqIf(Truthy(color), <<Decl("color", color)>>)
    \o SeqIf(Truthy(background_color),
             <<Decl("background-color", background_color)>>)
    \o SeqIf(Truthy(min_height), <<Decl("min-height", min_height)>>)
    \o (IF TruthyDict(padding) THEN padding_css(padding) ELSE <<>>)
    \o SeqIf(Truthy(font_size), <<Decl("font-size", font_size)>>)

(***************************************************************************)
(* Atomic block builders (src/converter.py 55-266)                         *)
(***************************************************************************)
\* A missing integer field (level, height, min_height, overlay_opacity,
\* layout.columns) of an item or a section.
AbsentInt == -1
GetInt(v, default) == IF v = AbsentInt THEN default ELSE v

\* One emitted block: start marker `block` with JSON `attrs`, the body
\* element `tag` with its class list and inline style, its text and the
\* blocks nested in it.
Block(block, attrs, tag, classes, css, text, inner) ==
    [block |-> block, attrs |-> attrs, tag |-> tag, classes |-> classes,
     css |-> css, text |-> text, inner |-> inner]

\* A JSON entry for each item of a dict, under the path prefix.
DictAttrs(prefix, d) == [i \in 1..Len(d) |-> <<prefix \o d[i][1], d[i][2]>>]

heading_classes(color, align) ==
       <<"wp-block-heading">>
    \o SeqIf(Truthy(color), <<"has-text-color">>)
    \o SeqIf(Truthy(align), <<"has-text-align-" \o align>>)

heading(text, level, color, font_size, align) ==
    Block("wp:heading",
             SeqIf(Truthy(align), << <<"textAlign", align>> >>)
          \o SeqIf(level # 2, << <<"level", level>> >>)
          \o SeqIf(Truthy(color), << <<"style.color.text", color>> >>)
          \o SeqIf(Truthy(font_size),
                   << <<"style.typography.fontSize", font_size>> >>),
          "h" \o ToString(level),
          heading_classes(color, align),
          build_css(None, None, None, color, None, None, DictNone, font_size),
          text, <<>>)

paragraph_classes(color, align) ==
       SeqIf(Truthy(align), <<"has-text-align-" \o align>>)
    \o SeqIf(Truthy(color), <<"has-text-color">>)

paragraph(text, color, font_size, align) ==
    Block("wp:paragraph",
             SeqIf(Truthy(align), << <<"align", align>> >>)
          \o SeqIf(Truthy(color), << <<"style.color.text", color>> >>)
          \o SeqIf(Truthy(font_size),
                   << <<"style.typography.fontSize", font_size>> >>),
          "p",
          paragraph_classes(color, align),
          build_css(None, None, None, color, None, None, DictNone, font_size),
          text, <<>>)

\* The data: URL of the grey placeholder image, drawn from the description
\* and the size (the description is kept whole: its quote stripping and its
\* cut to 60 characters are not modelled).
placeholder_svg(desc, w, h) ==
    "data:image/svg+xml," \o ToString(w) \o "x" \o ToString(h) \o ":" \o desc

\* <figure class="wp-block-image size-large"><img src alt/>caption</figure>:
\* text holds the src, alt the alt text, inner the figcaption if any.
ImageBlock(src, alt, caption_html) ==
    [block |-> "wp:image", attrs |-> << <<"sizeSlug", "large">> >>,
     tag |-> "figure", classes |-> <<"wp-block-image", "size-large">>,
     css |-> <<>>, text |-> src, inner |-> caption_html, alt |-> alt]

image(url, alt, width, height) ==
    ImageBlock(IF Truthy(url) THEN url
               ELSE placeholder_svg(Or(alt, "Bilde"), width, height),
               alt, <<>>)

\* The button: `classes` and `css` are those of the <a> link, `outer_classes`
\* those of the wrapping <div>, `href` the link target.
ButtonBlock(attrs, outer_classes, link_classes, css, url, text) ==
    [block |-> "wp:button", attrs |-> attrs, tag |-> "a",
     classes |-> link_classes, css |-> css, text |-> text, inner |-> <<>>,
     outer_classes |-> outer_classes, href |-> url]

button(text, url, bg_color, text_color, style_type, border_radius) ==
    IF style_type = "outline"
    THEN ButtonBlock(
             IF Truthy(bg_color)
             THEN << <<"style.border.width", "2px">>,
                     <<"style.border.color", bg_color>>,
                     <<"style.color.text", bg_color>> >>
             ELSE <<>>,
             <<"wp-block-button", "is-style-outline">>,
                <<"wp-block-button__link">>
             \o SeqIf(Truthy(bg_color),
                      <<"has-text-color", "has-border-color">>)
             \o <<"wp-element-button">>,
             IF Truthy(bg_color)
             THEN build_css(bg_color, "2px", None, bg_color, None, None,
                            DictNone, None)
             ELSE <<>>,
             url, text)
    ELSE ButtonBlock(
                SeqIf(Truthy(bg_color),
                      << <<"style.color.background", bg_color>> >>)
             \o SeqIf(Truthy(text_color),
                      << <<"style.color.text", text_color>> >>)
             \o SeqIf(Truthy(border_radius),
                      << <<"style.border.radius", border_radius>> >>),
             <<"wp-block-button">>,
                <<"wp-block-button__link">>
             \o SeqIf(Truthy(bg_color), <<"has-background">>)
             \o SeqIf(Truthy(text_color), <<"has-text-color">>)
             \o <<"wp-element-button">>,
             build_css(None, None,
                       IF Truthy(border_radius) THEN border_radius ELSE None,
                       IF Truthy(text_color) THEN text_color ELSE None,
                       IF Truthy(bg_color) THEN bg_color ELSE None,
                       None, DictNone, None),
             url, text)

buttons(inner, align) ==
    Block("wp:buttons",
          SeqIf(Truthy(align), << <<"layout.type", "flex">>,
                                  <<"layout.justifyContent", align>> >>),
          "div", <<"wp-block-buttons">>, <<>>, "", inner)

spacer(height) ==
    Block("wp:spacer", << <<"height", ToString(height) \o "px">> >>, "div",
          <<"wp-block-spacer">>,
          <<Decl("height", ToString(height) \o "px")>>, "", <<>>)

separator ==
    Block("wp:separator", <<>>, "hr",
          <<"wp-block-separator", "has-alpha-channel-opacity">>, <<>>, "",
          <<>>)

list_block(items, ordered) ==
    Block("wp:list", SeqIf(ordered, << <<"ordered", "true">> >>),
          IF ordered THEN "ol" ELSE "ul", <<>>, <<>>, "",
          [i \in 1..Len(items) |->
              Block("wp:list-item", <<>>, "li", <<>>, <<>>, items[i], <<>>)])

\* The placeholder comment without the name of the type.
unknown_content_anonymous(t) ==
    Block("comment", <<>>, "", <<>>, <<>>, "unknown content type", <<>>)

\* The placeholder comment of an unknown content type (no block markers).
unknown_content(t) ==
    Block("comment", <<>>, "", <<>>, <<>>, "unknown content type: " \o t,
          <<>>)

\* <figcaption class="wp-element-caption">...</figcaption>, a bare element.
figcaption(caption) ==
    Block("", <<>>, "figcaption", <<"wp-element-caption">>, <<>>, caption,
          <<>>)

\* images: a sequence of [alt, url, caption].
gallery(images, columns, crop) ==
    Block("wp:gallery",
             << <<"columns", columns>>, <<"linkTo", "none">> >>
          \o SeqIf(crop, << <<"imageCrop", "true">> >>),
          "figure",
          <<"wp-block-gallery", "has-nested-images",
            "columns-" \o ToString(columns), "is-cropped">>,
          <<>>, "",
          [i \in 1..Len(images) |->
              ImageBlock(IF Truthy(images[i].url) THEN images[i].url
                         ELSE placeholder_svg(images[i].alt, 600, 400),
                         images[i].alt,
                         SeqIf(Truthy(images[i].caption),
                               <<figcaption(images[i].caption)>>))])

(***************************************************************************)
(* Container blocks (src/converter.py 271-433)                             *)
(***************************************************************************)
\* "has-background" is appended whether or not bg_color is set.
group_classes_always_bg(align, text_color, bg_color) ==
       <<"wp-block-group">>
    \o SeqIf(Truthy(align), <<"align" \o align>>)
    \o SeqIf(Truthy(text_color), <<"has-text-color">>)
    \o <<"has-background">>

group_classes(align, text_color, bg_color) ==
       <<"wp-block-group">>
    \o SeqIf(Truthy(align), <<"align" \o align>>)
    \o SeqIf(Truthy(text_color), <<"has-text-color">>)
    \o SeqIf(Truthy(bg_color), <<"has-background">>)

group(inner, bg_color, text_color, padding, min_height, border_radius, align, layout_type) ==
    Block("wp:group",
             << <<"layout.type", layout_type>> >>
          \o SeqIf(Truthy(align), << <<"align", align>> >>)
          \o SeqIf(Truthy(bg_color),
                   << <<"style.color.background", bg_color>> >>)
          \o SeqIf(Truthy(text_color), << <<"style.color.text", text_color>> >>)
          \o (IF TruthyDict(padding)
              THEN DictAttrs("style.spacing.padding.", padding) ELSE <<>>)
          \o SeqIf(Truthy(min_height),
                   << <<"style.dimensions.minHeight", min_height>> >>)
          \o SeqIf(Truthy(border_radius),
                   << <<"style.border.radius", border_radius>> >>),
          "div",
          group_classes(align, text_color, bg_color),
          build_css(None, None, border_radius, text_color, bg_color,
                    min_height, padding, None),
          "", inner)

columns(inner, align) ==
    Block("wp:columns", SeqIf(Truthy(align), << <<"align", align>> >>), "div",
          <<"wp-block-columns">> \o SeqIf(Truthy(align), <<"align" \o align>>),
          <<>>, "", inner)

column_classes(border_color, border_width, text_color, bg_color) ==
       <<"wp-block-column">>
    \o SeqIf(Truthy(border_color) \/ Truthy(border_width),
             <<"has-border-color">>)
    \o SeqIf(Truthy(text_color), <<"has-text-color">>)
    \o SeqIf(Truthy(bg_color), <<"has-background">>)

column(inner, width, bg_color, text_color, padding, border_radius, border_color, border_width) ==
    Block("wp:column",
             SeqIf(Truthy(width), << <<"width", width>> >>)
          \o SeqIf(Truthy(bg_color),
                   << <<"style.color.background", bg_color>> >>)
          \o SeqIf(Truthy(text_color), << <<"style.color.text", text_color>> >>)
          \o (IF TruthyDict(padding)
              THEN DictAttrs("style.spacing.padding.", padding) ELSE <<>>)
          \o SeqIf(Truthy(border_radius),
                   << <<"style.border.radius", border_radius>> >>)
          \o SeqIf(Truthy(border_width),
                   << <<"style.border.width", border_width>> >>)
          \o SeqIf(Truthy(border_color),
                   << <<"style.border.color", border_color>> >>),
          "div",
          column_classes(border_color, border_width, text_color, bg_color),
          build_css(border_color, border_width, border_radius, text_color,
                    bg_color, None, padding, None),
          "", inner)

\* int(dim_ratio / 10) * 10: truncation instead of rounding.
dim_class_val_floor(dim_ratio) == (dim_ratio \div 10) * 10

\* Rounding to the nearest integer, a tie upwards.
dim_class_val_half_up(dim_ratio) == ((dim_ratio + 5) \div 10) * 10

\* round(dim_ratio / 10) * 10 with Python 3's round: to the nearest integer,
\* a tie (dim_ratio ending in 5) to the even one.
dim_class_val(dim_ratio) ==
    LET q == dim_ratio \div 10
        r == dim_ratio % 10
    IN  IF r < 5 THEN q * 10
        ELSE IF r > 5 THEN (q + 1) * 10
        ELSE IF q % 2 = 0 THEN q * 10 ELSE (q + 1) * 10

\* The cover block: besides the fields of a block, the background <img>
\* (its src, "" when there is none) and the class list of the dim <span>.
cover(inner, bg_image_url, dim_ratio, min_height, overlay_color, align) ==
    [block |-> "wp:cover",
     attrs |->    << <<"dimRatio", dim_ratio>>, <<"minHeight", min_height>>,
                     <<"isDark", "true">> >>
               \o SeqIf(Truthy(bg_image_url), << <<"url", bg_image_url>> >>)
               \o SeqIf(Truthy(overlay_color),
                        << <<"overlayColor", overlay_color>> >>)
               \o SeqIf(Truthy(align), << <<"align", align>> >>),
     tag |-> "div",
     classes |->    <<"wp-block-cover">>
                 \o SeqIf(Truthy(align), <<"align" \o align>>)
                 \o <<"is-dark">>,
     css |-> <<Decl("min-height", ToString(min_height) \o "px")>>,
     text |-> "",
     inner |-> inner,
     img |-> IF Truthy(bg_image_url) THEN bg_image_url ELSE "",
     span_classes |-> <<"wp-block-cover__background",
                        "has-background-dim-"
                            \o ToString(dim_class_val(dim_ratio)),
                        "has-background-dim">>,
     dim_modifier |-> dim_class_val(dim_ratio)]

(***************************************************************************)
(* Content item converter (src/converter.py 438-497)                       *)
(*                                                                         *)
(* A content item is a record                                              *)
(*   [type, text, level, color, font_size, align, items, url, alt,         *)
(*    ordered, width, height]                                              *)
(* whose missing keys hold Absent (AbsentInt for the integers, <<>> for    *)
(* items).  `items` holds the button entries of a buttons item, the        *)
(* strings of a list item and the [content] columns of a columns item.     *)
(***************************************************************************)
RECURSIVE convert_content_item(_)
convert_content_item(item) ==
    LET t == Get(item.type) IN
    CASE t = "heading" ->
           heading(item.text, GetInt(item.level, 2), Get(item.color),
                   Get(item.font_size), Get(item.align))
      [] t = "paragraph" ->
           paragraph(item.text, Get(item.color), Get(item.font_size),
                     Get(item.align))
      [] t = "image" ->
           image(Get(item.url), GetOr(item.alt, ""), GetInt(item.width, 800),
                 GetInt(item.height, 400))
      [] t = "buttons" ->
           buttons([i \in 1..Len(item.items) |->
                       button(item.items[i].text,
                              GetOr(item.items[i].url, "#"),
                              Get(item.items[i].bg_color),
                              Get(item.items[i].text_color),
                              GetOr(item.items[i].style, "fill"),
                              Get(item.items[i].border_radius))],
                   Get(item.align))
      [] t = "list" -> list_block(item.items, item.ordered)
      [] t = "spacer" -> spacer(GetInt(item.height, 40))
      [] t = "separator" -> separator
      [] t = "columns" ->
           columns([i \in 1..Len(item.items) |->
                       column([j \in 1..Len(item.items[i].content) |->
                                  convert_content_item(
                                      item.items[i].content[j])],
                              None, None, None, DictNone, None, None, None)],
                   "wide")
      [] OTHER -> unknown_content(t)

(***************************************************************************)
(* Alignment propagation (src/converter.py 502-531)                        *)
(***************************************************************************)
\* The section alignment replaces the item's own alignment.
apply_section_align_overwrite(content_item, section_align) ==
    IF ~Truthy(section_align) THEN content_item
    ELSE IF Get(content_item.type) \in {"heading", "paragraph", "buttons"}
         THEN [content_item EXCEPT !.align = section_align]
         ELSE content_item

apply_section_align(content_item, section_align) ==
    IF ~Truthy(section_align) THEN content_item
    ELSE IF Truthy(Get(content_item.align)) THEN content_item
    ELSE IF Get(content_item.type) \in {"heading", "paragraph", "buttons"}
         THEN [content_item EXCEPT !.align = section_align]
         ELSE content_item

\* _DEFAULT_SECTION_ALIGN.get(type)
DEFAULT_SECTION_ALIGN(type) ==
    IF type \in {"hero", "cta", "image-gallery", "features", "stats",
                 "testimonial", "quote", "logo-strip"}
    THEN "center" ELSE None

resolve_section_align(section) ==
    IF Truthy(Get(section.align)) THEN Get(section.align)
    ELSE DEFAULT_SECTION_ALIGN(Get(section.type))

\* [_convert_content_item(_apply_section_align(c, align)) for c in content]
ConvertAligned(content, align) ==
    [i \in 1..Len(content) |->
        convert_content_item(apply_section_align(content[i], align))]

\* [_convert_content_item(c) for c in content]
ConvertAll(content) ==
    [i \in 1..Len(content) |-> convert_content_item(content[i])]

(***************************************************************************)
(* Section converters (src/converter.py 536-767)                           *)
(*                                                                         *)
(* A section is a record                                                   *)
(*   [type, align, background, background_color, padding, min_height,      *)
(*    content, items, images, layout, styling]                             *)
(* with background = [type, value, url, overlay_opacity], layout =         *)
(* [columns], styling = [padding, card_border_radius]; a missing key holds *)
(* Absent (DictAbsent, AbsentInt), a missing sub-dict holds only missing   *)
(* keys, as section.get(key, {}) gives.                                    *)
(***************************************************************************)
\* d1 or d2, for dicts
OrDict(d1, d2) == IF TruthyDict(d1) THEN d1 ELSE d2

\* {**pad, "left": pad.get("left", "40px"), "right": pad.get("right", "40px")}
WithSidePadding(pad) ==
    DictSet(DictSet(pad, "left", DictGet(pad, "left", "40px")),
            "right", DictGet(pad, "right", "40px"))

Min(a, b) == IF a < b THEN a ELSE b

convert_hero(section) ==
    LET bg == section.background
        section_align == Or(resolve_section_align(section), "center")
        content == ConvertAligned(section.content, section_align)
        min_h == GetInt(section.min_height, 600)
    IN  IF Get(bg.type) = "image"
        THEN <<cover(content,
                     Or(Get(bg.url),
                        placeholder_svg("Hero bakgrunn", 1920, 800)),
                     GetInt(bg.overlay_opacity, 50), min_h, None, "full")>>
        ELSE <<group(content, GetOr(bg.value, "#1a1a2e"), None,
                     << <<"top", "80px">>, <<"bottom", "80px">>,
                        <<"left", "40px">>, <<"right", "40px">> >>,
                     ToString(min_h) \o "px", None, "full", "constrained")>>

\* One card of a columns/features/stats section.
convert_card(item, section, section_align) ==
    LET item_align == GetOr(item.align, section_align)
        inner == ConvertAligned(item.content, item_align)
        cs == item.card_style
        item_bg == Or(Get(cs.background_color), Get(item.background_color))
        border_color == Or(Get(cs.border_color), Get(item.border_color))
        border_width == Or(Get(cs.border_width), Get(item.border_width))
        add_border == ~Truthy(item_bg) /\ ~Truthy(border_color)
    IN  column(inner, None, item_bg,
               Or(Get(cs.text_color), Get(item.text_color)),
               OrDict(OrDict(GetDict(cs.padding), GetDict(item.padding)),
                      << <<"top", "20px">>, <<"right", "20px">>,
                         <<"bottom", "20px">>, <<"left", "20px">> >>),
               Or(Or(Get(cs.border_radius), Get(item.border_radius)),
                  Get(section.styling.card_border_radius)),
               IF add_border THEN "#e0e0e0" ELSE border_color,
               IF add_border THEN "1px" ELSE border_width)

convert_columns_section(section) ==
    LET section_align == resolve_section_align(section)
        col_blocks == [i \in 1..Len(section.items) |->
                          convert_card(section.items[i], section,
                                       section_align)]
        section_content == ConvertAligned(section.content, section_align)
        cols_html == columns(col_blocks, "wide")
        bg == Get(section.background_color)
        pad == GetDict(section.padding)
    IN  IF Truthy(bg) \/ TruthyDict(pad) \/ section_content # <<>>
        THEN <<group(Append(section_content, cols_html), bg, None, pad, None,
                     None, "full", "constrained")>>
        ELSE <<cols_html>>

convert_cta(section) ==
    LET bg == section.background
        bg_color == IF Truthy(Get(bg.value)) THEN Get(bg.value)
                    ELSE GetOr(section.background_color, "#333333")
        section_align == Or(resolve_section_align(section), "center")
        content == ConvertAligned(section.content, section_align)
        pad == OrDict(OrDict(GetDict(section.styling.padding),
                             GetDict(section.padding)),
                      << <<"top", "80px">>, <<"bottom", "80px">> >>)
        min_h == section.min_height
    IN  <<group(content, bg_color, None, WithSidePadding(pad),
                IF min_h # AbsentInt /\ min_h # 0
                THEN ToString(min_h) \o "px" ELSE None,
                None, "full", "constrained")>>

\* "<br>".join(caption_parts)
gallery_caption(img) ==
    LET title == SeqIf(Truthy(Get(img.caption_title)),
                       <<"<strong>" \o img.caption_title \o "</strong>">>)
        meta == SeqIf(Truthy(Get(img.caption_meta)), <<img.caption_meta>>)
        parts == title \o meta
    IN  IF Len(parts) = 0 THEN ""
        ELSE IF Len(parts) = 1 THEN parts[1]
        ELSE parts[1] \o "<br>" \o parts[2]

convert_image_gallery(section) ==
    LET section_align == resolve_section_align(section)
        content_blocks == ConvertAligned(section.content, section_align)
        images == section.images
        num_cols == GetInt(section.layout.columns, Min(Len(images), 3))
        gallery_images ==
            [i \in 1..Len(images) |->
                [alt |-> GetOr(images[i].description, "Bilde"),
                 url |-> Get(images[i].url),
                 caption |-> gallery_caption(images[i])]]
        all_inner == Append(content_blocks,
                            gallery(gallery_images, num_cols, TRUE))
        bg == Get(section.background_color)
        pad == GetDict(section.padding)
    IN  IF Truthy(bg) \/ TruthyDict(pad)
        THEN <<group(all_inner, bg, None, pad, None, None, "full",
                     "constrained")>>
        ELSE all_inner

\* One column for each logo, however many.
convert_logo_strip_uncapped(section) ==
    LET section_align == Or(resolve_section_align(section), "center")
        content_blocks == ConvertAligned(section.content, section_align)
        images == section.images
        num_logos == IF Len(images) > 0 THEN Len(images) ELSE 6
        gallery_images ==
            [i \in 1..Len(images) |->
                [alt |-> GetOr(images[i].description, "Logo"),
                 url |-> Get(images[i].url),
                 caption |-> ""]]
        bg == Get(section.background_color)
        pad == GetDictOr(section.padding,
                         << <<"top", "40px">>, <<"bottom", "40px">> >>)
    IN  <<group(Append(content_blocks,
                       gallery(gallery_images, num_logos, FALSE)),
                bg, None, pad, None, None, "full", "constrained")>>

convert_logo_strip(section) ==
    LET section_align == Or(resolve_section_align(section), "center")
        content_blocks == ConvertAligned(section.content, section_align)
        images == section.images
        num_logos == IF Len(images) > 0 THEN Len(images) ELSE 6
        gallery_images ==
            [i \in 1..Len(images) |->
                [alt |-> GetOr(images[i].description, "Logo"),
                 url |-> Get(images[i].url),
                 caption |-> ""]]
        bg == Get(section.background_color)
        pad == GetDictOr(section.padding,
                         << <<"top", "40px">>, <<"bottom", "40px">> >>)
    IN  <<group(Append(content_blocks,
                       gallery(gallery_images, Min(num_logos, 8), FALSE)),
                bg, None, pad, None, None, "full", "constrained")>>

\* The loop of _convert_footer over content[i..]: a heading met while
\* `current` is non-empty closes the group; the trailing `if current:`.
RECURSIVE footer_partition_from(_, _, _, _)
footer_partition_from(content, i, col_groups, current) ==
    IF i > Len(content)
    THEN IF current # <<>> THEN Append(col_groups, current) ELSE col_groups
    ELSE IF Get(content[i].type) = "heading" /\ current # <<>>
         THEN footer_partition_from(content, i + 1,
                                    Append(col_groups, current),
                                    <<content[i]>>)
         ELSE footer_partition_from(content, i + 1, col_groups,
                                    Append(current, content[i]))

\* Every heading closes the group, an empty one too.
footer_partition_every_heading(content) ==
    LET RECURSIVE walk(_, _, _)
        walk(i, col_groups, current) ==
            IF i > Len(content)
            THEN IF current # <<>> THEN Append(col_groups, current)
                 ELSE col_groups
            ELSE IF Get(content[i].type) = "heading"
                 THEN walk(i + 1, Append(col_groups, current), <<content[i]>>)
                 ELSE walk(i + 1, col_groups, Append(current, content[i]))
    IN  walk(1, <<>>, <<>>)

\* A heading closes the group only when the group already holds a heading.
footer_partition_after_heading(content) ==
    LET RECURSIVE walk(_, _, _)
        walk(i, col_groups, current) ==
            IF i > Len(content)
            THEN IF current # <<>> THEN Append(col_groups, current)
                 ELSE col_groups
            ELSE IF /\ Get(content[i].type) = "heading"
                    /\ \E j \in 1..Len(current) :
                          Get(current[j].type) = "heading"
                 THEN walk(i + 1, Append(col_groups, current), <<content[i]>>)
                 ELSE walk(i + 1, col_groups, Append(current, content[i]))
    IN  walk(1, <<>>, <<>>)

footer_partition(content) == footer_partition_from(content, 1, <<>>, <<>>)

\* The groups cut or padded to exactly num_cols.
pad_col_groups_exactly(col_groups, num_cols) ==
    [g \in 1..num_cols |->
        IF g <= Len(col_groups) THEN col_groups[g] ELSE <<>>]

\* while len(col_groups) < num_cols: col_groups.append([])
RECURSIVE pad_col_groups(_, _)
pad_col_groups(col_groups, num_cols) ==
    IF Len(col_groups) < num_cols
    THEN pad_col_groups(Append(col_groups, <<>>), num_cols)
    ELSE col_groups

footer_col_groups(content, num_cols) ==
    pad_col_groups(footer_partition(content), num_cols)

\* The structured background is read before the flat one.
convert_footer_structured_first(section) ==
    LET bg == Or(Or(Get(section.background.value),
                    Get(section.background_color)), "#333333")
        pad == GetDictOr(section.padding,
                         << <<"top", "60px">>, <<"bottom", "60px">> >>)
        num_cols == GetInt(section.layout.columns, 1)
        content == section.content
    IN  IF num_cols > 1
        THEN LET col_groups == footer_col_groups(content, num_cols)
                 col_blocks ==
                     [g \in 1..Len(col_groups) |->
                         column(ConvertAll(col_groups[g]), None, None, None,
                                DictNone, None, None, None)]
             IN  <<group(<<columns(col_blocks, "wide")>>, bg, None,
                         WithSidePadding(pad), None, None, "full",
                         "constrained")>>
        ELSE <<group(ConvertAll(content), bg, None, WithSidePadding(pad),
                     None, None, "full", "constrained")>>

convert_footer(section) ==
    LET bg == Or(Or(Get(section.background_color),
                    Get(section.background.value)), "#333333")
        pad == GetDictOr(section.padding,
                         << <<"top", "60px">>, <<"bottom", "60px">> >>)
        num_cols == GetInt(section.layout.columns, 1)
        content == section.content
    IN  IF num_cols > 1
        THEN LET col_groups == footer_col_groups(content, num_cols)
                 col_blocks ==
                     [g \in 1..Len(col_groups) |->
                         column(ConvertAll(col_groups[g]), None, None, None,
                                DictNone, None, None, None)]
             IN  <<group(<<columns(col_blocks, "wide")>>, bg, None,
                         WithSidePadding(pad), None, None, "full",
                         "constrained")>>
        ELSE <<group(ConvertAll(content), bg, None, WithSidePadding(pad),
                     None, None, "full", "constrained")>>

\* The group is returned only when the section has content.
convert_generic_content_only(section) ==
    LET section_align == resolve_section_align(section)
        content == ConvertAligned(section.content, section_align)
        bg == Get(section.background_color)
        pad == GetDict(section.padding)
    IN  IF content # <<>>
        THEN <<group(content, bg, None, pad, None, None, "full",
                     "constrained")>>
        ELSE <<>>

convert_generic(section) ==
    LET section_align == resolve_section_align(section)
        content == ConvertAligned(section.content, section_align)
        bg == Get(section.background_color)
        pad == GetDict(section.padding)
    IN  IF Truthy(bg) \/ TruthyDict(pad) \/ content # <<>>
        THEN <<group(content, bg, None, pad, None, None, "full",
                     "constrained")>>
        ELSE <<>>

convert_section(section) ==
    LET t == GetOr(section.type, "") IN
    CASE t = "hero" -> convert_hero(section)
      [] t \in {"columns", "features", "stats"} ->
           convert_columns_section(section)
      [] t = "cta" -> convert_cta(section)
      [] t = "image-gallery" -> convert_image_gallery(section)
      [] t = "logo-strip" -> convert_logo_strip(section)
      [] t = "footer" -> convert_footer(section)
      [] OTHER -> convert_generic(section)

(***************************************************************************)
(* Main entry point (src/converter.py 772-803)                             *)
(***************************************************************************)
theme_override_css ==
    Block("wp:html", <<>>, "style", <<>>, <<>>,
          ".site-header { display: none !important; }"
          \o " .site-footer { display: none !important; }"
          \o " .entry-hero-container-inner { display: none !important; }"
          \o " .entry-content-wrap { padding: 0 !important; max-width: 100% !important; }"
          \o " .wp-block-gallery:not(.is-cropped) .wp-block-image img"
          \o " { max-height: 60px; width: auto; object-fit: contain; }",
          <<>>)

\* The loop of convert_layout from index i (0-based, as enumerate gives it)
\* with the blocks collected so far; the "\n\n".join of the blocks is their
\* concatenation.
RECURSIVE convert_layout_from(_, _, _)
convert_layout_from(sections, i, blocks) ==
    IF i >= Len(sections) THEN blocks
    ELSE LET block == convert_section(sections[i + 1])
         IN  convert_layout_from(
                 sections, i + 1,
                 IF block # <<>>
                 THEN blocks \o block
                      \o SeqIf(i < Len(sections) - 1, <<spacer(30)>>)
                 ELSE blocks)

\* Each emitted section is put in front of the sections emitted before it.
convert_layout_prepend(layout_data) ==
    LET sections == layout_data.sections
        RECURSIVE loop(_, _)
        loop(i, blocks) ==
            IF i >= Len(sections) THEN blocks
            ELSE LET block == convert_section(sections[i + 1])
                 IN  loop(i + 1,
                          IF block # <<>>
                          THEN <<theme_override_css>> \o block
                               \o SeqIf(i < Len(sections) - 1,
                                        <<spacer(30)>>)
                               \o Tail(blocks)
                          ELSE blocks)
    IN  loop(0, <<theme_override_css>>)

\* layout_data is the record [sections]; a missing key gives [].
convert_layout(layout_data) ==
    convert_layout_from(layout_data.sections, 0, <<theme_override_css>>)

(***************************************************************************)
(* Exceptions of the portable compiler                                     *)
(*                                                                         *)
(* item["text"] and b["text"] are subscripts: a missing key raises         *)
(* KeyError (src/converter.py 443, 452, 470); _paragraph calls             *)
(* text.replace, which a None text has not (113).  An exception is not     *)
(* caught anywhere up to convert_layout.  Each operator gives the name of  *)
(* the exception the call raises, "" when the call returns.                *)
(***************************************************************************)
\* The first exception of a sequence of calls, "" when every call returns.
FirstExc(excs) ==
    IF \A i \in 1..Len(excs) : excs[i] = "" THEN ""
    ELSE excs[CHOOSE i \in 1..Len(excs) :
                 excs[i] # "" /\ \A j \in 1..(i - 1) : excs[j] = ""]

RECURSIVE convert_content_item_exc(_)
convert_content_item_exc(item) ==
    LET t == Get(item.type) IN
    CASE t = "heading" -> IF item.text = Absent THEN "KeyError" ELSE ""
      [] t = "paragraph" ->
           IF item.text = Absent THEN "KeyError"
           ELSE IF item.text = None THEN "AttributeError" ELSE ""
      [] t = "buttons" ->
           IF \E i \in 1..Len(item.items) : item.items[i].text = Absent
           THEN "KeyError" ELSE ""
      [] t = "columns" ->
           FirstExc([i \in 1..Len(item.items) |->
                        FirstExc([j \in 1..Len(item.items[i].content) |->
                                     convert_content_item_exc(
                                         item.items[i].content[j])])])
      [] OTHER -> ""

\* The content of the cards of a columns/features/stats section is converted
\* first, then the section's own content; the other converters convert the
\* section's content only.
convert_section_exc(section) ==
    LET content_exc(content) ==
            FirstExc([j \in 1..Len(content) |->
                         convert_content_item_exc(content[j])])
    IN  FirstExc(
            (IF GetOr(section.type, "") \in {"columns", "features", "stats"}
             THEN [i \in 1..Len(section.items) |->
                      content_exc(section.items[i].content)]
             ELSE <<>>)
            \o <<content_exc(section.content)>>)

convert_layout_exc(layout_data) ==
    FirstExc([i \in 1..Len(layout_data.sections) |->
                 convert_section_exc(layout_data.sections[i])])

(***************************************************************************)
(* Native-extension dialect: the Kadence builders (src/kadence_blocks.py)  *)
(*                                                                         *)
(* A Kadence block is a block record with two more fields: `void` (the     *)
(* block is the single self-closing marker "<!-- wp:X {...} /-->") and     *)
(* `ids`, the identifiers written into its body markup (class names and    *)
(* data attributes) besides the uniqueID attribute.  Every builder takes   *)
(* one more argument than in the source, `rand`: the outcome of the        *)
(* random.choices call of _uid, should the builder make it.                *)
(***************************************************************************)
\* None in an integer-typed position (min_height, max_width, wp_id, ...).
NoneInt == -2

\* f"_{prefix}{rand}"
uid(prefix, rand) == "_" \o prefix \o rand

\* unique_id or _uid(prefix)
uid_or(unique_id, prefix, rand) ==
    IF Truthy(unique_id) THEN unique_id ELSE uid(prefix, rand)

\* v is None, whatever the type of the position it stands in.
IsNone(v) == ToString(v) \in {ToString(None), ToString(NoneInt)}

\* {k: v for k, v in d.items() if v is not None}
kb_attrs(d) == SelectSeq(d, LAMBDA e : ~IsNone(e[2]))

\* html.escape over the texts of the inputs: "&", "<", ">" and the quotes
\* are replaced by their entities; a text without them is returned as is.
html_escape(text) ==
    CASE text = "R&D" -> "R&amp;D"
      [] text = "<b>" -> "&lt;b&gt;"
      [] OTHER -> text

\* html.escape(text) if text else ""
esc(text) == IF Truthy(text) THEN html_escape(text) ELSE ""

KBlock(block, attrs, tag, classes, text, inner, void, ids) ==
    [block |-> block, attrs |-> attrs, tag |-> tag, classes |-> classes,
     css |-> <<>>, text |-> text, inner |-> inner, void |-> void, ids |-> ids]

\* attrs["topPadding"] ... of row_layout and kb_column
kb_padding_attrs(padding) ==
    IF padding = <<>> THEN <<>>
    ELSE    << <<"topPadding", padding[1]>>,
               <<"bottomPadding",
                 IF Len(padding) > 1 THEN padding[2] ELSE padding[1]>> >>
         \o SeqIf(Len(padding) > 2, << <<"leftPadding", padding[3]>> >>)
         \o SeqIf(Len(padding) > 3, << <<"rightPadding", padding[4]>> >>)

\* padding and margin are lists of integers, None being the empty list (the
\* code only tests them for truth); overlay_opacity is in hundredths.
row_layout(inner_blocks, unique_id, ncols, col_layout, bg_color, bg_img, overlay_opacity, overlay_color, padding, margin, min_height, align, max_width, vertical_align, rand) ==
    LET u == uid_or(unique_id, "r", rand) IN
    KBlock("wp:kadence/rowlayout",
           kb_attrs(
                 << <<"uniqueID", u>>, <<"columns", ncols>>,
                    <<"colLayout", col_layout>> >>
              \o SeqIf(Truthy(bg_color), << <<"bgColor", bg_color>> >>)
              \o SeqIf(Truthy(bg_img),
                       << <<"bgImg", <<[bgImg |-> bg_img, bgImgSize |-> "cover",
                                        bgImgPosition |-> "center center"]>> >> >>)
              \o SeqIf(overlay_opacity # NoneInt,
                       << <<"overlayOpacity", overlay_opacity>> >>)
              \o SeqIf(Truthy(overlay_color), << <<"overlay", overlay_color>> >>)
              \o kb_padding_attrs(padding)
              \o (IF margin = <<>> THEN <<>>
                  ELSE << <<"topMargin", margin[1]>>,
                          <<"bottomMargin",
                            IF Len(margin) > 1 THEN margin[2] ELSE margin[1]>> >>)
              \o SeqIf(min_height # NoneInt /\ min_height # 0,
                       << <<"minHeight", min_height>>,
                          <<"minHeightUnit", "px">> >>)
              \o SeqIf(Truthy(align), << <<"align", align>> >>)
              \o SeqIf(max_width # NoneInt /\ max_width # 0,
                       << <<"maxWidth", max_width>> >>)
              \o SeqIf(Truthy(vertical_align),
                       << <<"verticalAlignment", vertical_align>> >>)),
           "", <<>>, "", inner_blocks, FALSE, <<>>)

kb_column(inner_blocks, unique_id, bg_color, padding, text_color, text_align, rand) ==
    LET u == uid_or(unique_id, "c", rand) IN
    KBlock("wp:kadence/column",
           kb_attrs(
                 << <<"uniqueID", u>>, <<"id", 1>> >>
              \o SeqIf(Truthy(bg_color), << <<"background", bg_color>> >>)
              \o SeqIf(Truthy(text_color), << <<"textColor", text_color>> >>)
              \o SeqIf(Truthy(text_align),
                       << <<"textAlign", <<text_align, "", "">> >> >>)
              \o kb_padding_attrs(padding)),
           "div", <<"wp-block-kadence-column", "kadence-column" \o u>>, "",
           inner_blocks, FALSE, <<u>>)

\* The optional arguments line_height, letter_spacing, margin, padding and
\* font_family are never passed by the page builder and keep their default
\* None; size is an integer.
adv_heading(text, unique_id, level, color, size, align, font_weight, rand) ==
    LET u == uid_or(unique_id, "h", rand) IN
    KBlock("wp:kadence/advancedheading",
           kb_attrs(
                 << <<"uniqueID", u>>, <<"level", level>> >>
              \o SeqIf(Truthy(color), << <<"color", color>> >>)
              \o SeqIf(size # NoneInt /\ size # 0,
                       << <<"fontSize", <<size, "", "">> >> >>)
              \o SeqIf(Truthy(align), << <<"align", align>> >>)
              \o SeqIf(Truthy(font_weight),
                       << <<"fontWeight", font_weight>> >>)),
           "h" \o ToString(level),
           <<"kt-adv-heading" \o u, "wp-block-kadence-advancedheading">>,
           esc(text), <<>>, FALSE, <<u, u>>)

\* One button of adv_btn: a dict [text, link, color, background,
\* border_radius, size] whose missing keys hold Absent; border_radius holds
\* the JSON text of its value.
singlebtn(btn, rand) ==
    LET btn_uid == uid("sb", rand) IN
    KBlock("wp:kadence/singlebtn",
           kb_attrs(
                 << <<"uniqueID", btn_uid>>,
                    <<"text", GetOr(btn.text, "Button")>>,
                    <<"sizePreset", GetOr(btn.size, "medium")>> >>
              \o SeqIf(Truthy(Get(btn.link)), << <<"link", btn.link>> >>)
              \o SeqIf(Truthy(Get(btn.color)), << <<"color", btn.color>> >>)
              \o SeqIf(Truthy(Get(btn.background)),
                       << <<"background", btn.background>> >>)
              \o SeqIf(Truthy(Get(btn.border_radius)),
                       << <<"borderRadius", btn.border_radius>> >>)),
           "", <<>>, "", <<>>, TRUE, <<>>)

\* rand: the outcomes of the calls of _uid in call order, the wrapper's
\* first (when it is made), then one for each button.
adv_btn(buttons_data, unique_id, align, rand) ==
    LET u == uid_or(unique_id, "b", rand[1])
        drawn == IF Truthy(unique_id) THEN 0 ELSE 1
    IN  KBlock("wp:kadence/advancedbtn",
               kb_attrs(<< <<"uniqueID", u>>, <<"hAlign", align>> >>),
               "div",
               <<"wp-block-kadence-advancedbtn", "kb-buttons-wrap",
                 "kb-btns" \o u, "kt-btn-align-" \o align, "kt-btns-wrap",
                 "kt-btns" \o u>>,
               "",
               [i \in 1..Len(buttons_data) |->
                   singlebtn(buttons_data[i], rand[drawn + i])],
               FALSE, <<u, u>>)

info_box(title, text, unique_id, icon, media_type, img_url, link, title_color, text_color, bg_color, align, rand) ==
    LET u == uid_or(unique_id, "ib", rand) IN
    KBlock("wp:kadence/infobox",
           kb_attrs(
                 << <<"uniqueID", u>>, <<"mediaType", media_type>>,
                    <<"hAlign", align>> >>
              \o SeqIf(Truthy(icon), << <<"mediaIcon", <<[icon |-> icon]>> >> >>)
              \o SeqIf(Truthy(img_url),
                       << <<"mediaImage", <<[url |-> img_url]>> >> >>)
              \o SeqIf(Truthy(link), << <<"link", link>> >>)
              \o SeqIf(Truthy(title_color), << <<"titleColor", title_color>> >>)
              \o SeqIf(Truthy(text_color), << <<"textColor", text_color>> >>)
              \o SeqIf(Truthy(bg_color),
                       << <<"containerBackground", bg_color>> >>)),
           "", <<>>, "", <<>>, TRUE, <<>>)

kb_spacer(height, unique_id, rand) ==
    LET u == uid_or(unique_id, "s", rand) IN
    KBlock("wp:kadence/spacer",
           kb_attrs(<< <<"uniqueID", u>>, <<"spacerHeight", height>> >>),
           "", <<>>, "", <<>>, TRUE, <<>>)

\* text holds the src of the <img>, alt its escaped alt text; max_width is
\* never passed by the page builder.
kb_image(url, unique_id, alt, wp_id, align, rand) ==
    LET u == uid_or(unique_id, "i", rand) IN
    [block |-> "wp:kadence/image",
     attrs |-> kb_attrs(
                     << <<"uniqueID", u>>, <<"imgLink", url>> >>
                  \o SeqIf(wp_id # NoneInt /\ wp_id # 0, << <<"id", wp_id>> >>)
                  \o SeqIf(Truthy(align), << <<"align", align>> >>)),
     tag |-> "figure",
     classes |-> <<"wp-block-kadence-image", "kb-image" \o u>>,
     css |-> <<>>, text |-> url, inner |-> <<>>, void |-> FALSE,
     ids |-> <<u>>, alt |-> esc(alt)]

\* items: dicts [text, name, title, rating]; rating is an integer.
testimonials(items, unique_id, ncols, style, rand) ==
    LET u == uid_or(unique_id, "t", rand) IN
    KBlock("wp:kadence/testimonials",
           kb_attrs(
              << <<"uniqueID", u>>,
                 <<"testimonials",
                   [i \in 1..Len(items) |->
                       [content |-> GetOr(items[i].text, ""),
                        name |-> GetOr(items[i].name, ""),
                        title |-> GetOr(items[i].title, ""),
                        icon |-> "star",
                        rating |-> GetInt(items[i].rating, 5)]]>>,
                 <<"columns", <<ncols, ncols, 1>> >>,
                 <<"style", style>> >>),
           "", <<>>, "", <<>>, TRUE, <<>>)

\* items: dicts [icon, text].
icon_list(items, unique_id, icon, color, rand) ==
    LET u == uid_or(unique_id, "il", rand) IN
    KBlock("wp:kadence/iconlist",
           kb_attrs(
                 << <<"uniqueID", u>>,
                    <<"items",
                      [i \in 1..Len(items) |->
                          [icon |-> GetOr(items[i].icon, icon),
                           text |-> GetOr(items[i].text, "")]]>> >>
              \o SeqIf(Truthy(color),
                       << <<"listStyles", <<[color |-> color]>> >> >>)),
           "", <<>>, "", <<>>, TRUE, <<>>)

\* The five default fields of the contact form.
DEFAULT_FORM_FIELDS ==
    << [label |-> "Navn", type |-> "text", required |-> TRUE, width |-> <<"50", "", "">>],
       [label |-> "E-post", type |-> "email", required |-> TRUE, width |-> <<"50", "", "">>],
       [label |-> "Telefon", type |-> "text", required |-> FALSE, width |-> <<"50", "", "">>],
       [label |-> "Emne", type |-> "text", required |-> FALSE, width |-> <<"50", "", "">>],
       [label |-> "Melding", type |-> "textarea", required |-> TRUE, width |-> <<"100", "", "">>] >>

\* fields: a sequence of field dicts, None being the empty list.
form_block(unique_id, email, subject, submit_text, fields, rand) ==
    LET u == uid_or(unique_id, "f", rand) IN
    KBlock("wp:kadence/form",
           kb_attrs(
              << <<"uniqueID", u>>,
                 <<"fields", IF fields = <<>> THEN DEFAULT_FORM_FIELDS
                             ELSE fields>>,
                 <<"email", <<[emailTo |-> email, subject |-> subject]>> >>,
                 <<"submit", <<[label |-> submit_text]>> >>,
                 <<"actions", <<"email">> >> >>),
           "", <<>>, "", <<>>, TRUE, <<>>)

(***************************************************************************)
(* Core builders of the native-extension dialect                           *)
(* (src/gutenberg_blocks.py), as the page builder calls them               *)
(***************************************************************************)
\* style: the dict built by the caller, flattened to <<path, value>> items.
gb_paragraph(text, align, style) ==
    Block("wp:paragraph",
             SeqIf(Truthy(align), << <<"align", align>> >>)
          \o DictAttrs("style.", style),
          "p", SeqIf(Truthy(align), <<"has-text-align-" \o align>>), <<>>,
          esc(text), <<>>)

\* The paths of the spacing of a style dict, in the order heading() reads
\* them (padding before margin, the sides in the order of the dict), and
\* the property each gives.
GB_SPACING ==
    << <<"spacing.padding.top", "padding-top">>,
       <<"spacing.padding.bottom", "padding-bottom">>,
       <<"spacing.margin.top", "margin-top">>,
       <<"spacing.margin.bottom", "margin-bottom">> >>

RECURSIVE gb_spacing_parts(_, _)
gb_spacing_parts(style, n) ==
    IF n > Len(GB_SPACING) THEN <<>>
    ELSE SeqIf(HasKey(style, GB_SPACING[n][1]),
               <<Decl(GB_SPACING[n][2], Item(style, GB_SPACING[n][1]))>>)
         \o gb_spacing_parts(style, n + 1)

\* The inline style heading() draws from its style dict.
gb_heading_inline(style) ==
       gb_spacing_parts(style, 1)
    \o SeqIf(HasKey(style, "typography.fontSize"),
             <<Decl("font-size", Item(style, "typography.fontSize"))>>)
    \o SeqIf(HasKey(style, "typography.lineHeight"),
             <<Decl("line-height", Item(style, "typography.lineHeight"))>>)
    \o SeqIf(HasKey(style, "color.text"),
             <<Decl("color", Item(style, "color.text"))>>)
    \o SeqIf(HasKey(style, "color.background"),
             <<Decl("background-color", Item(style, "color.background"))>>)

\* heading() with its default background_color; text_color and font_size
\* are preset slugs.
gb_heading(text, level, text_align, text_color, font_size, style) ==
    Block("wp:heading",
             SeqIf(level # 2, << <<"level", level>> >>)
          \o SeqIf(Truthy(text_align), << <<"textAlign", text_align>> >>)
          \o SeqIf(Truthy(text_color), << <<"textColor", text_color>> >>)
          \o SeqIf(Truthy(font_size), << <<"fontSize", font_size>> >>)
          \o DictAttrs("style.", style),
          "h" \o ToString(level),
             SeqIf(Truthy(text_align), <<"has-text-align-" \o text_align>>)
          \o SeqIf(Truthy(text_color),
                   <<"has-" \o text_color \o "-color", "has-text-color">>)
          \o SeqIf(Truthy(font_size),
                   <<"has-" \o font_size \o "-font-size">>),
          gb_heading_inline(style),
          esc(text), <<>>)

gb_list_block(items, ordered) ==
    Block("wp:list", SeqIf(ordered, << <<"ordered", "true">> >>),
          IF ordered THEN "ol" ELSE "ul", <<>>, <<>>, "",
          [i \in 1..Len(items) |->
              Block("wp:list-item", <<>>, "li", <<>>, <<>>, esc(items[i]),
                    <<>>)])

\* separator() with its default style_type and no color
gb_separator ==
    Block("wp:separator", <<>>, "hr",
          <<"wp-block-separator", "has-alpha-channel-opacity">>, <<>>, "", <<>>)

\* The <cite> element, when there is one, is the block's only inner element.
gb_quote(text, citation) ==
    Block("wp:quote", <<>>, "blockquote", <<"wp-block-quote">>, <<>>,
          esc(text),
          SeqIf(Truthy(citation),
                <<Block("", <<>>, "cite", <<>>, <<>>, esc(citation), <<>>)>>))

(***************************************************************************)
(* Page builder: content items (src/page_builder.py 17-29, 129-138,        *)
(* 393-491)                                                                *)
(*                                                                         *)
(* img_map is the sequence of <<original_index, [url, id]>> entries of the *)
(* uploaded images; their file names are missing, so the only string key   *)
(* of the map is "" and no description matches it.                         *)
(*                                                                         *)
(* rand is the stream of outcomes of the successive random.choices calls   *)
(* of one run and k the number of draws made before the call.              *)
(***************************************************************************)
\* The data: URL of the placeholder, drawn from the description and the size
\* (the cut of the description to 40 characters and the URL quoting are not
\* modelled).
pb_placeholder_svg(desc, w, h) ==
    "data:image/svg+xml,%3Csvg " \o ToString(w) \o "x" \o ToString(h) \o " " \o desc

\* img_map holds the uploaded images under their filename (names) and
\* under their original index (indexes), each in insertion order.
EmptyImgMap == [names |-> <<>>, indexes |-> <<>>]

\* any(w in key.lower() for w in desc_lower.split()[:2] if len(w) > 3), on
\* the descriptions and the filenames of the inputs.
WORD_MATCHES == {<<"Bilde", "bilde.jpg">>, <<"hero background", "hero.jpg">>, <<"hero background", "background.png">>, <<"Team photo", "team.jpg">>}

desc_matches(description, key) == <<description, key>> \in WORD_MATCHES

\* (url, wp_id) of the uploaded image of the index, else of the first
\* uploaded image whose filename holds a word of the description, else the
\* placeholder.
get_image_url(img_map, description, index, fallback_w, fallback_h) ==
    LET named == {i \in 1..Len(img_map.names) :
                     desc_matches(description, img_map.names[i][1])}
        first == CHOOSE i \in named : \A j \in named : i <= j
    IN  IF HasKey(img_map.indexes, index)
        THEN [url |-> Item(img_map.indexes, index).url,
              wp_id |-> GetInt(Item(img_map.indexes, index).id, 0)]
        ELSE IF named # {}
        THEN [url |-> img_map.names[first][2].url,
              wp_id |-> GetInt(img_map.names[first][2].id, 0)]
        ELSE [url |-> pb_placeholder_svg(description, fallback_w, fallback_h),
              wp_id |-> 0]

\* The font sizes of the inputs: int(val.replace("px", "").replace("em",
\* "").strip() or "0"), None for None.
PX_TABLE == << <<"48px", 48>>, <<"16px", 16>>, <<"2em", 2>>, <<"", 0>> >>

parse_px(val) ==
    IF val = None THEN NoneInt ELSE Item(PX_TABLE, val)

\* int() raises ValueError on what is left of the string.
parse_px_raises(val) == val # None /\ ~HasKey(PX_TABLE, val)

\* The k-th draw (counted from 0) of the stream, which is read again from
\* its start when it is used up.
Draw(rand, k) == rand[(k % Len(rand)) + 1]

DrawsFrom(rand, k, n) == [i \in 1..n |-> Draw(rand, k + i - 1)]

\* f"<!-- Unknown: {t} -->", a comment and no block.
unknown_item(t) ==
    Block("comment", <<>>, "", <<>>, <<>>, "Unknown: " \o t, <<>>)

\* How many identifiers the build of an item, of the first n items of a
\* content list and of the first n columns of a columns item mints.
RECURSIVE draws_content_item(_), draws_content(_, _), draws_columns(_, _)
draws_content_item(item) ==
    LET t == GetOr(item.type, "") IN
    CASE t \in {"heading", "image", "spacer", "icon_list"} -> 1
      [] t = "buttons" -> 1 + Len(item.items)
      [] t = "image-gallery" ->
           IF item.images # <<>> THEN 2 * Len(item.images) + 1 ELSE 0
      [] t = "columns" -> draws_columns(item.items, Len(item.items)) + 1
      [] OTHER -> 0

draws_content(content, n) ==
    IF n = 0 THEN 0
    ELSE draws_content(content, n - 1) + draws_content_item(content[n])

draws_columns(items, n) ==
    IF n = 0 THEN 0
    ELSE draws_columns(items, n - 1)
         + draws_content(items[n].content, Len(items[n].content)) + 1

\* row_layout / kb_column with every argument the caller leaves out at its
\* default.
row_of(inner_blocks, ncols, col_layout, bg_color, padding, rand) ==
    row_layout(inner_blocks, None, ncols, col_layout, bg_color, None, NoneInt, None, padding, <<>>, NoneInt, "full", NoneInt, "middle", rand)

kb_column_of(inner_blocks, text_align, rand) ==
    kb_column(inner_blocks, None, None, <<>>, None, text_align, rand)

\* The button dict the page builder hands to adv_btn.
btn_data(btn) ==
    [text |-> GetOr(btn.text, "Knapp"),
     link |-> GetOr(btn.url, "#"),
     background |-> GetOr(btn.bg_color, "#c8a97e"),
     color |-> GetOr(btn.text_color, "#ffffff"),
     border_radius |-> GetOr(btn.border_radius, "4"),
     size |-> Absent]

\* style = {}; style["color"] = ...; style["typography"] = ...
paragraph_style(item) ==
       SeqIf(Truthy(Get(item.color)), << <<"color.text", item.color>> >>)
    \o SeqIf(Truthy(Get(item.font_size)),
             << <<"typography.fontSize", item.font_size>> >>)

RECURSIVE build_content_item(_, _, _, _)
\* [_build_content_item(c, img_map) for c in content], the first draw of
\* the list being draw k.
build_content(content, img_map, rand, k) ==
    [i \in 1..Len(content) |->
        build_content_item(content[i], img_map, rand,
                           k + draws_content(content, i - 1))]

\* The kb_column of column n of a columns item whose first draw is draw k.
build_column(items, n, img_map, rand, k) ==
    LET base == k + draws_columns(items, n - 1)
        content == items[n].content
    IN  kb_column_of(build_content(content, img_map, rand, base), None,
                     Draw(rand, base + draws_content(content, Len(content))))

build_content_item(item, img_map, rand, k) ==
    LET t == GetOr(item.type, "") IN
    CASE t = "heading" ->
           adv_heading(GetOr(item.text, ""), None, GetInt(item.level, 2),
                       Get(item.color), parse_px(Get(item.font_size)),
                       Get(item.align), Get(item.font_weight), Draw(rand, k))
      [] t = "paragraph" ->
           gb_paragraph(GetOr(item.text, ""), Get(item.align),
                        paragraph_style(item))
      [] t = "image" ->
           LET alt == GetOr(item.alt, "Bilde")
               url == IF Truthy(Get(item.url)) THEN item.url
                      ELSE get_image_url(img_map, alt, -1,
                                         GetInt(item.width, 800),
                                         GetInt(item.height, 400)).url
           IN  kb_image(url, None, alt, NoneInt, None, Draw(rand, k))
      [] t = "buttons" ->
           adv_btn([i \in 1..Len(item.items) |-> btn_data(item.items[i])],
                   None, GetOr(item.align, "center"),
                   DrawsFrom(rand, k, 1 + Len(item.items)))
      [] t = "list" -> gb_list_block(item.items, item.ordered)
      [] t = "spacer" ->
           kb_spacer(GetInt(item.height, 40), None, Draw(rand, k))
      [] t = "separator" -> gb_separator
      [] t = "quote" -> gb_quote(GetOr(item.text, ""), Get(item.citation))
      [] t = "icon_list" ->
           icon_list([i \in 1..Len(item.items) |->
                         [icon |-> Absent, text |-> item.items[i]]],
                     None, "fe_check", None, Draw(rand, k))
      [] t = "image-gallery" /\ item.images # <<>> ->
           LET images == item.images
               n == Len(images)
           IN  row_of([i \in 1..n |->
                          kb_column_of(
                              <<kb_image(
                                  pb_placeholder_svg(
                                      GetOr(images[i].alt, "Logo"),
                                      GetInt(images[i].width, 100),
                                      GetInt(images[i].height, 50)),
                                  None, GetOr(images[i].alt, "Logo"),
                                  NoneInt, None,
                                  Draw(rand, k + 2 * (i - 1)))>>,
                              None, Draw(rand, k + 2 * (i - 1) + 1))],
                      Min(n, 6), "equal", None, <<20, 20, 15, 15>>,
                      Draw(rand, k + 2 * n))
      [] t = "columns" ->
           LET items == item.items IN
           row_of([n \in 1..Len(items) |->
                      build_column(items, n, img_map, rand, k)],
                  GetInt(item.columns, Len(items)), "equal", None,
                  <<20, 20, 15, 15>>,
                  Draw(rand, k + draws_columns(items, Len(items))))
      [] OTHER -> unknown_item(t)

\* The exception _build_content_item raises on the item, "" when it returns:
\* the ValueError of _parse_px on the font size of a heading, in the item
\* or in an item nested in its columns.
RECURSIVE build_content_item_exc(_)
build_content_item_exc(item) ==
    LET t == GetOr(item.type, "") IN
    CASE t = "heading" ->
           IF parse_px_raises(Get(item.font_size)) THEN "ValueError" ELSE ""
      [] t = "columns" ->
           IF \E n \in 1..Len(item.items) :
                 \E j \in 1..Len(item.items[n].content) :
                     build_content_item_exc(item.items[n].content[j]) # ""
           THEN "ValueError" ELSE ""
      [] OTHER -> ""

(***************************************************************************)
(* Section builders of the page builder (src/page_builder.py 141-390).     *)
(* A builder returns the sequence of the blocks of its markup, "" being    *)
(* the empty sequence; k is the first draw of the builder.                 *)
(***************************************************************************)
\* val.startswith("#"), on the colours of the inputs.
HASH_COLOURS == {"#4b250d", "#1a1a2e", "#ff0000", "#333333", "#c8a97e", "#ffffff", "#f5f5f5"}

starts_with_hash(v) == v \in HASH_COLOURS

\* row_layout([col], columns=1, ...) around kb_column(inner, text_align):
\* the column takes draw k and the row draw k + 1.
row_of_column(inner, text_align, bg_color, padding, rand, k) ==
    row_of(<<kb_column_of(inner, text_align, Draw(rand, k))>>, 1, "equal",
           bg_color, padding, Draw(rand, k + 1))

build_hero(section, img_map, rand, k) ==
    LET bg == section.background
        content == section.content
        inner_blocks == build_content(content, img_map, rand, k)
        n == draws_content(content, Len(content))
        bg_img_url ==
            IF Get(bg.type) = "image"
            THEN get_image_url(img_map, GetOr(bg.value, "hero background"),
                               0, 1920, 800).url
            ELSE None
        given ==
            IF Get(bg.type) = "image" THEN None
            ELSE IF Get(bg.type) = "color" THEN GetOr(bg.value, "#1a1a2e")
            ELSE IF starts_with_hash(GetOr(bg.value, "")) THEN bg.value
            ELSE None
        bg_color ==
            IF ~Truthy(given) /\ ~Truthy(bg_img_url) THEN "#1a1a2e" ELSE given
        col == kb_column_of(inner_blocks, GetOr(section.align, "center"),
                            Draw(rand, k + n))
    IN  <<row_layout(<<col>>, None, 1, "equal", bg_color, bg_img_url,
                     IF Truthy(bg_img_url)
                     THEN GetInt(bg.overlay_opacity, 50) ELSE NoneInt,
                     IF Truthy(bg_img_url)
                     THEN GetOr(bg.overlay_color, "#000000") ELSE None,
                     <<80, 80, 30, 30>>, <<>>,
                     GetInt(section.min_height, 600), "full", NoneInt,
                     "middle", Draw(rand, k + n + 1))>>

\* The columns of a columns section are built as those of a columns item,
\* with text_align="center".
build_section_column(items, n, img_map, rand, k) ==
    LET base == k + draws_columns(items, n - 1)
        content == items[n].content
    IN  kb_column_of(build_content(content, img_map, rand, base), "center",
                     Draw(rand, base + draws_content(content, Len(content))))

build_columns_section(section, img_map, rand, k) ==
    LET items == section.items
        num_cols == GetInt(section.columns,
                           IF Len(items) # 0 THEN Len(items) ELSE 3)
    IN  <<row_of([n \in 1..Len(items) |->
                     build_section_column(items, n, img_map, rand, k)],
                 num_cols, "equal", Get(section.background_color),
                 <<60, 60, 30, 30>>,
                 Draw(rand, k + draws_columns(items, Len(items))))>>

build_text_section(section, img_map, rand, k) ==
    LET content == section.content
        n == draws_content(content, Len(content))
    IN  <<row_of_column(build_content(content, img_map, rand, k),
                        GetOr(section.align, "center"),
                        Get(section.background_color), <<60, 60, 30, 30>>,
                        rand, k + n)>>

build_media_text(section, img_map, rand, k) ==
    LET content == section.content
        inner == build_content(content, img_map, rand, k)
        n == draws_content(content, Len(content))
        media_desc == GetOr(section.media_description, "image")
        img == get_image_url(img_map, media_desc, -1, 600, 400)
        pos == GetOr(section.media_position, "left")
        img_col == kb_column_of(
                       <<kb_image(img.url, None, media_desc, img.wp_id, None,
                                  Draw(rand, k + n))>>,
                       None, Draw(rand, k + n + 1))
        text_col == kb_column_of(inner, None, Draw(rand, k + n + 2))
        cols == IF pos = "left" THEN <<img_col, text_col>>
                ELSE <<text_col, img_col>>
    IN  <<row_of(cols, 2, "equal", None, <<60, 60, 30, 30>>,
                 Draw(rand, k + n + 3))>>

\* The text of the last paragraph and the text of the last heading of the
\* content, each item without text keeping what was found so far.
RECURSIVE last_text_of(_, _, _, _)
last_text_of(content, type, n, default) ==
    IF n = 0 THEN default
    ELSE LET before == last_text_of(content, type, n - 1, default) IN
         IF Get(content[n].type) = type THEN GetOr(content[n].text, before)
         ELSE before

build_testimonial(section, rand, k) ==
    LET content == section.content
        text == last_text_of(content, "paragraph", Len(content),
                             GetOr(section.text, ""))
        citation == last_text_of(content, "heading", Len(content),
                                 GetOr(section.citation, ""))
        items == <<[text |-> text, name |-> citation, title |-> "",
                    rating |-> AbsentInt]>>
    IN  <<row_of_column(<<testimonials(items, None, 1, "card", Draw(rand, k))>>,
                        None, None, <<60, 60>>, rand, k + 1)>>

build_cta(section, img_map, rand, k) ==
    LET content == section.content
        n == draws_content(content, Len(content))
    IN  <<row_of_column(build_content(content, img_map, rand, k), "center",
                        GetOr(section.background_color, "#1a1a2e"),
                        <<80, 80, 30, 30>>, rand, k + n)>>

\* The column of card i (counted from 1) of a gallery whose first draw is
\* draw k: its content, or the image of index i - 1 when it has none.
gallery_card_draws(item) ==
    IF item.content = <<>> THEN 2
    ELSE draws_content(item.content, Len(item.content)) + 1

RECURSIVE gallery_draws(_, _)
gallery_draws(items, n) ==
    IF n = 0 THEN 0
    ELSE gallery_draws(items, n - 1) + gallery_card_draws(items[n])

gallery_card(items, i, img_map, rand, k) ==
    LET base == k + gallery_draws(items, i - 1)
        content == items[i].content
        img == get_image_url(img_map, "gallery " \o ToString(i - 1), i - 1,
                             800, 400)
        inner == IF content = <<>>
                 THEN <<kb_image(img.url, None, "", img.wp_id, None,
                                 Draw(rand, base))>>
                 ELSE build_content(content, img_map, rand, base)
    IN  kb_column_of(inner, None,
                     Draw(rand, base + gallery_card_draws(items[i]) - 1))

\* The column of image i (counted from 1) of a gallery of images.
gallery_image(images, i, img_map, rand, k) ==
    LET alt == GetOr(images[i].alt, "Bilde " \o ToString(i))
        img == get_image_url(img_map, alt, i - 1,
                             GetInt(images[i].width, 300),
                             GetInt(images[i].height, 200))
    IN  kb_column_of(<<kb_image(img.url, None, alt, img.wp_id, None,
                                Draw(rand, k + 2 * (i - 1)))>>,
                     None, Draw(rand, k + 2 * (i - 1) + 1))

build_gallery(section, img_map, rand, k) ==
    LET items == section.items
        content == section.content
        images == SelectSeq(content, LAMBDA c : Get(c.type) = "image")
    IN  IF items # <<>>
        THEN <<row_of([i \in 1..Len(items) |->
                          gallery_card(items, i, img_map, rand, k)],
                      Min(Len(items), 4), "equal",
                      Get(section.background_color), <<40, 40, 15, 15>>,
                      Draw(rand, k + gallery_draws(items, Len(items))))>>
        ELSE IF images # <<>>
        THEN <<row_of([i \in 1..Len(images) |->
                          gallery_image(images, i, img_map, rand, k)],
                      Min(Len(images), 4), "equal", None, <<40, 40, 15, 15>>,
                      Draw(rand, k + 2 * Len(images)))>>
        ELSE <<>>

\* The fields handed to form_block for the fields of a form item.
contact_field(f) ==
    LET given == GetOr(f.type, "text")
        ftype == IF given = "tel" THEN "text" ELSE given
    IN  [label |-> GetOr(f.label, ""), type |-> ftype,
         required |-> f.required,
         width |-> IF ftype # "textarea" THEN <<"50", "", "">>
                   ELSE <<"100", "", "">>]

\* The fields of the last form item of the content, [] without one.
RECURSIVE form_fields_of(_, _)
form_fields_of(content, n) ==
    IF n = 0 THEN <<>>
    ELSE IF Get(content[n].type) = "form" THEN content[n].fields
    ELSE form_fields_of(content, n - 1)

build_contact(section, rand, k) ==
    LET content == section.content
        others == SelectSeq(content, LAMBDA c : Get(c.type) # "form")
        n == draws_content(others, Len(others))
        form_fields == form_fields_of(content, Len(content))
        form == form_block(None, "post@haugli.no",
                           "Ny henvendelse fra nettsiden", "Send melding",
                           [i \in 1..Len(form_fields) |->
                               contact_field(form_fields[i])],
                           Draw(rand, k + n))
    IN  <<row_of_column(Append(build_content(others, EmptyImgMap, rand, k),
                               form),
                        None, Get(section.background_color),
                        <<60, 60, 30, 30>>, rand, k + n + 1)>>

\* address.replace(" ", "+"), on the addresses of the inputs.
plus_for_spaces(address) ==
    CASE address = "Haugesund, Norway" -> "Haugesund,+Norway"
      [] address = "Storgata 1, Oslo" -> "Storgata+1,+Oslo"
      [] OTHER -> address

\* The wp:html block of the map: text holds the src of the <iframe>.
map_embed(address) ==
    Block("wp:html", <<>>, "div", <<>>,
          << <<"width", "100%">>, <<"height", "400px">> >>,
          "https://maps.google.com/maps?q=" \o plus_for_spaces(address)
          \o "&output=embed", <<>>)

build_map(section, rand, k) ==
    <<row_of_column(<<map_embed(GetOr(section.address, "Haugesund, Norway"))>>,
                    None, None, <<0, 0>>, rand, k)>>

build_generic(section, img_map, rand, k) ==
    LET content == section.content
        n == draws_content(content, Len(content))
    IN  IF content = <<>> THEN <<>>
        ELSE <<row_of_column(build_content(content, img_map, rand, k), None,
                             None, <<40, 40, 30, 30>>, rand, k + n)>>

build_section(section, img_map, rand, k) ==
    LET t == GetOr(section.type, "generic") IN
    CASE t = "hero" -> build_hero(section, img_map, rand, k)
      [] t \in {"columns", "features", "stats", "services", "team", "about-team"} ->
           build_columns_section(section, img_map, rand, k)
      [] t \in {"text-section", "content"} ->
           build_text_section(section, img_map, rand, k)
      [] t = "media-text" -> build_media_text(section, img_map, rand, k)
      [] t \in {"quote", "testimonial"} -> build_testimonial(section, rand, k)
      [] t \in {"cta", "call-to-action"} -> build_cta(section, img_map, rand, k)
      [] t \in {"image-gallery", "gallery", "properties-grid"} ->
           build_gallery(section, img_map, rand, k)
      [] t \in {"contact", "contact-form"} -> build_contact(section, rand, k)
      [] t = "map" -> build_map(section, rand, k)
      [] OTHER -> build_generic(section, img_map, rand, k)

\* How many identifiers the build of a section mints.
draws_section(section) ==
    LET t == GetOr(section.type, "generic")
        content == section.content
        n == draws_content(content, Len(content))
        images == SelectSeq(content, LAMBDA c : Get(c.type) = "image")
        others == SelectSeq(content, LAMBDA c : Get(c.type) # "form")
    IN  CASE t \in {"columns", "features", "stats", "services", "team", "about-team"} ->
               draws_columns(section.items, Len(section.items)) + 1
          [] t = "media-text" -> n + 4
          [] t \in {"quote", "testimonial"} -> 3
          [] t \in {"image-gallery", "gallery", "properties-grid"} ->
               IF section.items # <<>>
               THEN gallery_draws(section.items, Len(section.items)) + 1
               ELSE IF images # <<>> THEN 2 * Len(images) + 1 ELSE 0
          [] t \in {"contact", "contact-form"} ->
               draws_content(others, Len(others)) + 3
          [] t = "map" -> 2
          [] t \in {"hero", "text-section", "content", "cta", "call-to-action"} ->
               n + 2
          [] OTHER -> IF content = <<>> THEN 0 ELSE n + 2

\* img_map[key] = img: the value of a key already there is replaced in
\* its place, a new key is added last.
dict_set(d, key, img) ==
    IF HasKey(d, key)
    THEN [i \in 1..Len(d) |-> IF d[i][1] = key THEN <<key, img>> ELSE d[i]]
    ELSE Append(d, <<key, img>>)

\* The img_map of the first n uploaded images.
RECURSIVE img_map_of(_, _)
img_map_of(uploaded_images, n) ==
    IF n = 0 THEN EmptyImgMap
    ELSE LET before == img_map_of(uploaded_images, n - 1)
             img == uploaded_images[n]
         IN  [names |-> dict_set(before.names, GetOr(img.filename, ""), img),
              indexes |-> IF img.original_index # AbsentInt
                          THEN dict_set(before.indexes, img.original_index, img)
                          ELSE before.indexes]

\* The sections that are built: those whose type is not "footer".
built_sections(sections) ==
    SelectSeq(sections, LAMBDA section : Get(section.type) # "footer")

RECURSIVE draws_sections(_, _)
draws_sections(sections, n) ==
    IF n = 0 THEN 0
    ELSE draws_sections(sections, n - 1) + draws_section(sections[n])

\* "\n\n".join(blocks) of the non-empty blocks of the first n built
\* sections; uploaded_images is a list, None being the empty list.
RECURSIVE build_sections(_, _, _, _)
build_sections(sections, n, img_map, rand) ==
    IF n = 0 THEN <<>>
    ELSE build_sections(sections, n - 1, img_map, rand)
         \o build_section(sections[n], img_map, rand,
                          draws_sections(sections, n - 1))

build_page_content(layout, uploaded_images, rand) ==
    LET sections == built_sections(layout.sections) IN
    build_sections(sections, Len(sections),
                   img_map_of(uploaded_images, Len(uploaded_images)), rand)

\* The exception build_page_content raises, "" when it returns: that of
\* the first content item whose build raises.
section_content_exc(section) ==
    LET t == GetOr(section.type, "generic")
        in_content == FirstExc([i \in 1..Len(section.content) |->
                         build_content_item_exc(section.content[i])])
        in_items == FirstExc([i \in 1..Len(section.items) |->
                       FirstExc([j \in 1..Len(section.items[i].content) |->
                          build_content_item_exc(section.items[i].content[j])])])
    IN  CASE t \in {"columns", "features", "stats", "services", "team", "about-team"} ->
               in_items
          [] t \in {"quote", "testimonial", "map"} -> ""
          [] t \in {"image-gallery", "gallery", "properties-grid"} ->
               IF section.items # <<>> THEN in_items ELSE ""
          [] OTHER -> in_content

build_page_content_exc(layout) ==
    LET sections == built_sections(layout.sections) IN
    FirstExc([i \in 1..Len(sections) |-> section_content_exc(sections[i])])

(***************************************************************************)
(* build_footer_content (src/page_builder.py 63-126)                       *)
(***************************************************************************)
\* columns_item after the loop over the first n items: the index of the
\* last item of type "columns", 0 for None.
RECURSIVE columns_item_of(_, _)
columns_item_of(content, n) ==
    IF n = 0 THEN 0
    ELSE IF Get(content[n].type) = "columns" THEN n
    ELSE columns_item_of(content, n - 1)

\* row_layout(col_blocks, columns=len(col_blocks), col_layout="equal",
\* padding=[20, 20, 30, 30]) of the columns item, whose first draw is k.
footer_columns_row(columns_item, rand, k) ==
    LET items == columns_item.items IN
    row_of([n \in 1..Len(items) |->
               build_column(items, n, EmptyImgMap, rand, k)],
           Len(items), "equal", None, <<20, 20, 30, 30>>,
           Draw(rand, k + draws_columns(items, Len(items))))

build_footer_content(layout, rand) ==
    LET sections == layout.sections
        section == sections[1]
        content == section.content
        bg == section.background
        bg_color ==
            IF starts_with_hash(GetOr(bg.value, "")) THEN bg.value
            ELSE IF starts_with_hash(GetOr(section.background_color, ""))
            THEN section.background_color
            ELSE "#4b250d"
        at == columns_item_of(content, Len(content))
        top_items == SelectSeq(content, LAMBDA item : Get(item.type) # "columns")
        n == draws_content(top_items, Len(top_items))
        top_blocks == build_content(top_items, EmptyImgMap, rand, 0)
    IN  IF sections = <<>> THEN <<>>
        ELSE IF at = 0
        THEN <<row_of_column(top_blocks, "center", bg_color,
                             <<40, 40, 30, 30>>, rand, n)>>
        ELSE <<row_of_column(
                   Append(top_blocks,
                          footer_columns_row(content[at], rand, n)),
                   None, bg_color, <<40, 40, 30, 30>>, rand,
                   n + draws_columns(content[at].items,
                                     Len(content[at].items)) + 1)>>

\* The exception build_footer_content raises, "" when it returns: that of
\* the first item built, the items of the columns item coming last.
build_footer_content_exc(layout) ==
    LET content == layout.sections[1].content
        at == columns_item_of(content, Len(content))
        top_items == SelectSeq(content, LAMBDA item : Get(item.type) # "columns")
    IN  IF layout.sections = <<>> THEN ""
        ELSE FirstExc([i \in 1..Len(top_items) |->
                          build_content_item_exc(top_items[i])]
                      \o SeqIf(at # 0, <<build_content_item_exc(content[at])>>))

(***************************************************************************)
(* Block markers of the markup.  A template opens with the start marker    *)
(* "<!-- wp:X {attrs} -->" and closes with the end marker written on its   *)
(* last line, or is the single self-closing marker "<!-- wp:X {attrs} /-->"*)
(* A comment placeholder and a bare element are no markers.                *)
(***************************************************************************)
end_marker_unprefixed(block) ==
    IF block = "wp:kadence/column" THEN "/wp:column"
    ELSE IF block = "wp:kadence/rowlayout" THEN "/wp:rowlayout"
    ELSE "/" \o block

\* The end marker of the template of each start marker: converter.py 85,
\* 119, 131/232, 184, 198, 207, 215, 245, 255, 265, 319, 334, 387, 432, 785;
\* kadence_blocks.py 85, 117, 158, 196, 258; gutenberg_blocks.py 119, 345,
\* 356, 363, 378; page_builder.py 378.
end_marker(block) ==
    CASE block = "wp:heading" -> "/wp:heading"
      [] block = "wp:paragraph" -> "/wp:paragraph"
      [] block = "wp:image" -> "/wp:image"
      [] block = "wp:button" -> "/wp:button"
      [] block = "wp:buttons" -> "/wp:buttons"
      [] block = "wp:spacer" -> "/wp:spacer"
      [] block = "wp:separator" -> "/wp:separator"
      [] block = "wp:gallery" -> "/wp:gallery"
      [] block = "wp:list-item" -> "/wp:list-item"
      [] block = "wp:list" -> "/wp:list"
      [] block = "wp:group" -> "/wp:group"
      [] block = "wp:columns" -> "/wp:columns"
      [] block = "wp:column" -> "/wp:column"
      [] block = "wp:cover" -> "/wp:cover"
      [] block = "wp:html" -> "/wp:html"
      [] block = "wp:quote" -> "/wp:quote"
      [] block = "wp:kadence/rowlayout" -> "/wp:kadence/rowlayout"
      [] block = "wp:kadence/column" -> "/wp:kadence/column"
      [] block = "wp:kadence/advancedheading" -> "/wp:kadence/advancedheading"
      [] block = "wp:kadence/advancedbtn" -> "/wp:kadence/advancedbtn"
      [] block = "wp:kadence/image" -> "/wp:kadence/image"

\* "/-->": the templates of kadence_blocks.py 187, 227, 236, 285, 309, 338.
is_self_closing(b) == "void" \in DOMAIN b /\ b.void

\* The markers of the first n blocks of a sequence, in the order of the
\* text: <<kind, name>> with kind "start", "end" or "void".
RECURSIVE markers_of(_, _)
markers_of(blocks, n) ==
    IF n = 0 THEN <<>>
    ELSE LET b == blocks[n]
             inside == markers_of(b.inner, Len(b.inner))
         IN  markers_of(blocks, n - 1)
             \o (IF b.block \in {"", "comment"} THEN inside
                 ELSE IF is_self_closing(b) THEN << <<"void", b.block>> >>
                 ELSE << <<"start", b.block>> >> \o inside
                      \o << <<"end", end_marker(b.block)>> >>)

markers(blocks) == markers_of(blocks, Len(blocks))

(***************************************************************************)
(* Inputs of _build_css                                                    *)
(***************************************************************************)
\* Largest number of sides a padding dict of the inputs holds.
MaxPadSides == 2

\* A supplied style value, an empty one and a missing one.
StyleValues == {None, "", "4px"}
PadValues == {"8px", "", None}

IsDict(d) == \A i, j \in 1..Len(d) : d[i][1] = d[j][1] => i = j

RECURSIVE DictsOfLen(_)
DictsOfLen(n) ==
    IF n = 0 THEN {<<>>}
    ELSE {Append(d, <<k, v>>) :
             d \in DictsOfLen(n - 1),
             k \in {PADDING_SIDES[i] : i \in 1..Len(PADDING_SIDES)},
             v \in PadValues}

PaddingInputs ==
    {DictNone} \cup
    {d \in UNION {DictsOfLen(n) : n \in 0..MaxPadSides} : IsDict(d)}

CssInputs ==
    [border_color : {None, "#e0e0e0"}, border_width : {None, "1px"},
     border_radius : StyleValues, color : StyleValues,
     background_color : {None, "#333333"}, min_height : {None, "600px"},
     padding : PaddingInputs, font_size : StyleValues]

NoOutput == <<>>

InitCss ==
    /\ fn = "_build_css"
    /\ pc = "call"
    /\ input \in CssInputs
    /\ output = NoOutput

CallBuildCss ==
    /\ fn = "_build_css"
    /\ pc = "call"
    /\ output' = build_css(input.border_color, input.border_width,
                           input.border_radius, input.color,
                           input.background_color, input.min_height,
                           input.padding, input.font_size)
    /\ pc' = "done"
    /\ UNCHANGED <<fn, input>>

NextCss == CallBuildCss

SpecCss == InitCss /\ [][NextCss]_vars

(***************************************************************************)
(* Properties of _build_css                                                *)
(***************************************************************************)
\* The canonical property order of the inline style.
CSS_ORDER ==
    <<"border-color", "border-width", "border-radius", "color",
      "background-color", "min-height", "padding-top", "padding-right",
      "padding-bottom", "padding-left", "font-size">>

CssRank(prop) == CHOOSE r \in 1..Len(CSS_ORDER) : CSS_ORDER[r] = prop

\* The value the caller supplied for a property, None when it supplied none.
CssSupplied(in, prop) ==
    CASE prop = "border-color" -> in.border_color
      [] prop = "border-width" -> in.border_width
      [] prop = "border-radius" -> in.border_radius
      [] prop = "color" -> in.color
      [] prop = "background-color" -> in.background_color
      [] prop = "min-height" -> in.min_height
      [] prop = "font-size" -> in.font_size
      [] prop = "padding-top" -> DictGet(in.padding, "top", None)
      [] prop = "padding-right" -> DictGet(in.padding, "right", None)
      [] prop = "padding-bottom" -> DictGet(in.padding, "bottom", None)
      [] prop = "padding-left" -> DictGet(in.padding, "left", None)

CssDone == fn = "_build_css" /\ pc = "done"

\* The declarations follow the canonical order, each property at most once.
CssInCanonicalOrder ==
    CssDone =>
        /\ \A i \in 1..Len(output) :
              \E r \in 1..Len(CSS_ORDER) : CSS_ORDER[r] = output[i][1]
        /\ \A i, j \in 1..Len(output) :
              i < j => CssRank(output[i][1]) < CssRank(output[j][1])

\* C8: _build_css emits only the supplied (non-null) properties, each at
\* most once, with no empty declaration, in the canonical order
\* border-color, border-width, border-radius, color, background-color,
\* min-height, padding-top/right/bottom/left, font-size, whatever the order
\* in which the caller supplied the padding sides.
C8_CssCanonical ==
    CssDone =>
        /\ CssInCanonicalOrder
        /\ \A i \in 1..Len(output) :
              /\ CssSupplied(input, output[i][1]) # None
              /\ output[i][2] = CssSupplied(input, output[i][1])
              /\ output[i][2] # ""

(***************************************************************************)
(* Calls of the container builders _group and _column                      *)
(***************************************************************************)
ContainerPaddings ==
    {DictNone, <<>>, << <<"top", "60px">>, <<"bottom", "60px">> >>}

\* The children handed to a container: none, or one paragraph.
ContainerInners == {<<>>, <<paragraph("text", None, None, None)>>}

GroupInputs ==
    [inner : ContainerInners, bg_color : {None, "", "#333333"},
     text_color : {None, "", "#ffffff"}, padding : ContainerPaddings,
     min_height : {None, "600px"}, border_radius : {None, "8px"},
     align : {None, "full", "wide"}, layout_type : {"constrained"}]

ColumnInputs ==
    [inner : ContainerInners, width : {None, "50%"},
     bg_color : {None, "", "#f5f5f5"}, text_color : {None, "", "#ffffff"},
     padding : ContainerPaddings, border_radius : {None, "8px"},
     border_color : {None, "#e0e0e0"}, border_width : {None, "1px"}]

InitContainer ==
    /\ pc = "call"
    /\ output = NoOutput
    /\ \/ fn = "_group" /\ input \in GroupInputs
       \/ fn = "_column" /\ input \in ColumnInputs

CallGroup ==
    /\ fn = "_group"
    /\ pc = "call"
    /\ output' = group(input.inner, input.bg_color, input.text_color,
                       input.padding, input.min_height, input.border_radius,
                       input.align, input.layout_type)
    /\ pc' = "done"
    /\ UNCHANGED <<fn, input>>

CallColumn ==
    /\ fn = "_column"
    /\ pc = "call"
    /\ output' = column(input.inner, input.width, input.bg_color,
                        input.text_color, input.padding, input.border_radius,
                        input.border_color, input.border_width)
    /\ pc' = "done"
    /\ UNCHANGED <<fn, input>>

NextContainer == CallGroup \/ CallColumn

SpecContainer == InitContainer /\ [][NextContainer]_vars

HasClass(b, c) == \E i \in 1..Len(b.classes) : b.classes[i] = c
HasDecl(b, prop) == \E i \in 1..Len(b.css) : b.css[i][1] = prop
HasAttr(b, key) == \E i \in 1..Len(b.attrs) : b.attrs[i][1] = key
AttrOf(b, key) == b.attrs[CHOOSE i \in 1..Len(b.attrs) : b.attrs[i][1] = key][2]

ContainerDone == fn \in {"_group", "_column"} /\ pc = "done"

\* C9: for every call of _group and _column the class "has-background" is in
\* the class list exactly when the inline style has a background-color
\* declaration: both with a bg_color that is set, neither with bg_color null
\* (or empty, which the builders take as not set).  The same holds for
\* "has-text-color" and the inline color declaration.
C9_StyleClassConsistent ==
    ContainerDone =>
        /\ HasClass(output, "has-background")
              <=> HasDecl(output, "background-color")
        /\ Truthy(input.bg_color) =>
              /\ HasClass(output, "has-background")
              /\ HasDecl(output, "background-color")
        /\ ~Truthy(input.bg_color) =>
              /\ ~HasClass(output, "has-background")
              /\ ~HasDecl(output, "background-color")
        /\ HasClass(output, "has-text-color") <=> HasDecl(output, "color")
        /\ Truthy(input.text_color) =>
              /\ HasClass(output, "has-text-color")
              /\ HasDecl(output, "color")
        /\ ~Truthy(input.text_color) =>
              /\ ~HasClass(output, "has-text-color")
              /\ ~HasDecl(output, "color")

\* A column built with a background colour and no text colour carries the
\* background class and declaration and neither of the text colour.
C9_Witness ==
    /\ fn = "_column"
    /\ pc = "done"
    /\ input.bg_color = "#f5f5f5"
    /\ input.text_color = None
    /\ HasClass(output, "has-background")
    /\ HasDecl(output, "background-color")
    /\ ~HasClass(output, "has-text-color")

(***************************************************************************)
(* Calls of the cover builder _cover                                       *)
(***************************************************************************)
CoverInputs ==
    [inner : {<<>>}, bg_image_url : {None, "hero.jpg"}, dim_ratio : 0..100,
     min_height : {400, 600}, overlay_color : {None},
     align : {None, "full"}]

InitCover ==
    /\ fn = "_cover"
    /\ pc = "call"
    /\ input \in CoverInputs
    /\ output = NoOutput

CallCover ==
    /\ fn = "_cover"
    /\ pc = "call"
    /\ output' = cover(input.inner, input.bg_image_url, input.dim_ratio,
                       input.min_height, input.overlay_color, input.align)
    /\ pc' = "done"
    /\ UNCHANGED <<fn, input>>

NextCover == CallCover

SpecCover == InitCover /\ [][NextCover]_vars

CoverDone == fn = "_cover" /\ pc = "done"

Abs(n) == IF n < 0 THEN 0 - n ELSE n

\* C10: for every integer dim_ratio in 0..100 the modifier m of the class
\* "has-background-dim-<m>" is a multiple of 10 in 0..100 at distance at most
\* 5 from dim_ratio, the dimRatio attribute keeps the unrounded value, and
\* 54 gives 50 while 55 gives 60.
C10_DimRatioRounded ==
    CoverDone =>
        LET m == output.dim_modifier
            d == input.dim_ratio
        IN  /\ m % 10 = 0
            /\ m \in 0..100
            /\ Abs(m - d) <= 5
            /\ output.span_classes[2] = "has-background-dim-" \o ToString(m)
            /\ AttrOf(output, "dimRatio") = d
            /\ d = 54 => m = 50
            /\ d = 55 => m = 60

\* The cover built with dim_ratio 55: class modifier 60, attribute 55.
C10_Witness ==
    /\ CoverDone
    /\ input.dim_ratio = 55
    /\ output.span_classes[2] = "has-background-dim-60"
    /\ AttrOf(output, "dimRatio") = 55

(***************************************************************************)
(* Layout documents: items and sections with every key missing             *)
(***************************************************************************)
NoItem ==
    [type |-> Absent, text |-> Absent, level |-> AbsentInt, color |-> Absent,
     font_size |-> Absent, align |-> Absent, items |-> <<>>, url |-> Absent,
     alt |-> Absent, ordered |-> FALSE, width |-> AbsentInt,
     height |-> AbsentInt, images |-> <<>>, citation |-> Absent,
     font_weight |-> Absent, columns |-> AbsentInt, fields |-> <<>>]

NoSection ==
    [type |-> Absent, align |-> Absent,
     background |-> [type |-> Absent, value |-> Absent, url |-> Absent,
                     overlay_opacity |-> AbsentInt, overlay_color |-> Absent],
     background_color |-> Absent, padding |-> DictAbsent,
     min_height |-> AbsentInt, content |-> <<>>, items |-> <<>>,
     images |-> <<>>, layout |-> [columns |-> AbsentInt],
     styling |-> [padding |-> DictAbsent, card_border_radius |-> Absent],
     columns |-> AbsentInt, text |-> Absent, citation |-> Absent,
     address |-> Absent, media_description |-> Absent,
     media_position |-> Absent]

RECURSIVE SeqsUpTo(_, _)
SeqsUpTo(S, n) ==
    IF n = 0 THEN {<<>>}
    ELSE LET shorter == SeqsUpTo(S, n - 1)
         IN  shorter \cup {Append(q, x) : q \in shorter, x \in S}

\* The i-th item of a content sequence of the given types, named by type
\* and rank among the items of its type: H1, P1, P2, H2, P3, ...
Label(types, i) ==
    (CASE types[i] = "heading" -> "H"
       [] types[i] = "paragraph" -> "P"
       [] OTHER -> "I")
    \o ToString(Cardinality({j \in 1..i : types[j] = types[i]}))

ContentOfTypes(types) ==
    [i \in 1..Len(types) |->
        IF types[i] = "image"
        THEN [NoItem EXCEPT !.type = "image", !.url = Label(types, i)]
        ELSE [NoItem EXCEPT !.type = types[i], !.text = Label(types, i)]]

(***************************************************************************)
(* Calls of _convert_footer                                                *)
(***************************************************************************)
\* Longest content sequence of a footer section of the inputs.
MaxFooterItems == 5

FooterContents ==
    {ContentOfTypes(types) :
        types \in SeqsUpTo({"heading", "paragraph", "image"}, MaxFooterItems)}

FooterInputs ==
    {[NoSection EXCEPT !.type = "footer", !.content = c,
                       !.layout = [columns |-> k]] :
        c \in FooterContents, k \in {AbsentInt, 1, 2, 3}}

InitFooter ==
    /\ fn = "_convert_footer"
    /\ pc = "call"
    /\ input \in FooterInputs
    /\ output = NoOutput

CallConvertFooter ==
    /\ fn = "_convert_footer"
    /\ pc = "call"
    /\ IF convert_section_exc(input) # ""
       THEN /\ pc' = "raised"
            /\ output' = convert_section_exc(input)
       ELSE /\ pc' = "done"
            /\ output' = convert_footer(input)
    /\ UNCHANGED <<fn, input>>

NextFooter == CallConvertFooter

SpecFooter == InitFooter /\ [][NextFooter]_vars

\* The call returned from the multi-column branch (layout.columns > 1).
FooterColumnsDone ==
    fn = "_convert_footer" /\ pc = "done" /\ input.layout.columns > 1

\* The column blocks of a multi-column footer, and what each holds: the
\* group of wp:columns is the only child of the footer's group.
FooterColumns == output[1].inner[1].inner
\* The columns that hold a group of the partition; the empty ones are the
\* columns appended to reach layout.columns.
FooterGroups == SelectSeq(FooterColumns, LAMBDA col : col.inner # <<>>)

RECURSIVE Flatten(_)
Flatten(seqs) ==
    IF seqs = <<>> THEN <<>> ELSE Head(seqs) \o Flatten(Tail(seqs))

\* C6: the footer partition opens a new group exactly when a heading is met
\* while the current group is non-empty: the groups concatenated in order are
\* the content sequence, no group is empty (an empty column only pads the
\* groups up to layout.columns), every heading is the first item of its
\* group and every group after the first starts with a heading.
C6_FooterPartition ==
    FooterColumnsDone =>
        /\ Flatten([g \in 1..Len(FooterColumns) |-> FooterColumns[g].inner])
              = ConvertAll(input.content)
        /\ \A g \in 1..Len(FooterColumns) :
              FooterColumns[g].inner = <<>> =>
                  /\ Len(FooterColumns) = input.layout.columns
                  /\ \A h \in g..Len(FooterColumns) :
                        FooterColumns[h].inner = <<>>
        /\ \A g \in 1..Len(FooterColumns) :
              \A i \in 1..Len(FooterColumns[g].inner) :
                  FooterColumns[g].inner[i].block = "wp:heading" => i = 1
        /\ \A g \in 2..Len(FooterGroups) :
              FooterGroups[g].inner[1].block = "wp:heading"
        /\ \A g \in 1..Len(FooterGroups) :
              \A i \in 2..Len(FooterGroups[g].inner) :
                  FooterGroups[g].inner[i].block # "wp:heading"

TypesOf(content) == [i \in 1..Len(content) |-> content[i].type]
TextsOf(blocks) == [i \in 1..Len(blocks) |-> blocks[i].text]

\* The spec's example [H1,P1,P2,H2,P3] with two columns gives the groups
\* [H1,P1,P2] and [H2,P3].
C6_Witness ==
    /\ FooterColumnsDone
    /\ input.layout.columns = 2
    /\ TypesOf(input.content) =
          <<"heading", "paragraph", "paragraph", "heading", "paragraph">>
    /\ Len(FooterColumns) = 2
    /\ TextsOf(FooterColumns[1].inner) = <<"H1", "P1", "P2">>
    /\ TextsOf(FooterColumns[2].inner) = <<"H2", "P3">>

\* The footer with two columns and the content [P1, H1, P2].
FooterLeadingParagraph ==
    /\ FooterColumnsDone
    /\ input.layout.columns = 2
    /\ TypesOf(input.content) = <<"paragraph", "heading", "paragraph">>

\* C7 as stated: [P1, H1, P2] with columns = 2 yields the single group
\* [P1,H1,P2].
C7_SingleGroup ==
    FooterLeadingParagraph =>
        /\ Len(FooterGroups) = 1
        /\ TextsOf(FooterGroups[1].inner) = <<"P1", "H1", "P2">>

\* C7 as amended: [P1, H1, P2] with columns = 2 yields the two groups [P1]
\* and [H1,P2]: the heading is met while the current group holds P1, so it
\* opens a new group.
C7_TwoGroups ==
    FooterLeadingParagraph =>
        /\ Len(FooterColumns) = 2
        /\ TextsOf(FooterColumns[1].inner) = <<"P1">>
        /\ TextsOf(FooterColumns[2].inner) = <<"H1", "P2">>
        /\ FooterColumns[2].inner[1].block = "wp:heading"

C7_Witness ==
    /\ FooterLeadingParagraph
    /\ Len(FooterGroups) = 2
    /\ TextsOf(FooterGroups[2].inner) = <<"H1", "P2">>

(***************************************************************************)
(* Calls of convert_section: alignment of the content items                *)
(***************************************************************************)
\* Longest content sequence of a section of the inputs.
MaxAlignItems == 2

NoButton ==
    [text |-> "Go", url |-> Absent, bg_color |-> Absent,
     text_color |-> Absent, style |-> Absent, border_radius |-> Absent]

NoCard ==
    [align |-> Absent, content |-> <<>>,
     card_style |-> [background_color |-> Absent, border_color |-> Absent,
                     border_width |-> Absent, text_color |-> Absent,
                     padding |-> DictAbsent, border_radius |-> Absent],
     background_color |-> Absent, border_color |-> Absent,
     border_width |-> Absent, text_color |-> Absent, padding |-> DictAbsent,
     border_radius |-> Absent]

ALIGNABLE == {"heading", "paragraph", "buttons"}

\* Headings, paragraphs and buttons with and without an alignment of their
\* own, and a spacer, which takes none.
AlignItems ==
    {[NoItem EXCEPT !.type = t, !.text = "text", !.align = a,
                    !.items = IF t = "buttons" THEN <<NoButton>> ELSE <<>>] :
        t \in ALIGNABLE, a \in {Absent, "left", "center"}}
    \cup {[NoItem EXCEPT !.type = "spacer"]}

AlignContents == SeqsUpTo(AlignItems, MaxAlignItems)

\* One section of every archetype of convert_section, in each branch that
\* wraps the content differently.
AlignSectionShapes ==
    {[NoSection EXCEPT !.type = "hero"],
     [NoSection EXCEPT !.type = "hero", !.background.type = "image"],
     [NoSection EXCEPT !.type = "cta"],
     [NoSection EXCEPT !.type = "image-gallery"],
     [NoSection EXCEPT !.type = "image-gallery",
                       !.background_color = "#ffffff"],
     [NoSection EXCEPT !.type = "logo-strip"],
     [NoSection EXCEPT !.type = "footer"],
     [NoSection EXCEPT !.type = "footer", !.layout = [columns |-> 2]],
     [NoSection EXCEPT !.type = "text-section"],
     NoSection}

SectionAligns == {Absent, "left", "center", "right"}

\* The section of the call: a shape with the given align and content, or a
\* columns/features/stats section whose one card has the same content.
InitAlign ==
    /\ fn = "convert_section"
    /\ pc = "call"
    /\ output = NoOutput
    /\ \E a \in SectionAligns, c \in AlignContents :
          \/ \E shape \in AlignSectionShapes :
                input = [shape EXCEPT !.align = a, !.content = c]
          \/ \E t \in {"columns", "features", "stats"}, ca \in {Absent, "right"} :
                input = [NoSection EXCEPT
                            !.type = t, !.align = a, !.content = c,
                            !.items = <<[NoCard EXCEPT !.align = ca,
                                                       !.content = c]>>]

CallConvertSection ==
    /\ fn = "convert_section"
    /\ pc = "call"
    /\ IF convert_section_exc(input) # ""
       THEN /\ pc' = "raised"
            /\ output' = convert_section_exc(input)
       ELSE /\ pc' = "done"
            /\ output' = convert_section(input)
    /\ UNCHANGED <<fn, input>>

NextAlign == CallConvertSection

SpecAlign == InitAlign /\ [][NextAlign]_vars

SectionDone == fn = "convert_section" /\ pc = "done"

\* The blocks directly inside the section's wrapper (group or cover), or the
\* returned blocks themselves when the converter added no wrapper.
SectionChildren ==
    IF Len(output) = 1 /\ output[1].block \in {"wp:group", "wp:cover"}
    THEN output[1].inner
    ELSE output

\* The blocks rendered for section.content, in order.  The multi-column
\* footer spreads them over its columns; every other converter puts them
\* first among the children.
RenderedContent ==
    IF input.type = "footer" /\ input.layout.columns > 1
    THEN LET cols == SectionChildren[1].inner
         IN  Flatten([g \in 1..Len(cols) |-> cols[g].inner])
    ELSE SubSeq(SectionChildren, 1, Len(input.content))

\* The blocks rendered for the content of card k of a columns section: the
\* wp:columns block is the last child.
RenderedCard(k) == SectionChildren[Len(SectionChildren)].inner[k].inner

ALIGN_CLASSES ==
    {"has-text-align-left", "has-text-align-center", "has-text-align-right"}

AlignClassesOf(b) ==
    {b.classes[i] : i \in 1..Len(b.classes)} \cap ALIGN_CLASSES

\* The rendered block b of a heading, paragraph or buttons item carries the
\* alignment a and no other: a is its alignment attribute and, for a heading
\* or paragraph, its only alignment class.
CarriesAlign(b, a) ==
    CASE b.block = "wp:heading" ->
           /\ HasAttr(b, "textAlign") /\ AttrOf(b, "textAlign") = a
           /\ AlignClassesOf(b) = {"has-text-align-" \o a}
      [] b.block = "wp:paragraph" ->
           /\ HasAttr(b, "align") /\ AttrOf(b, "align") = a
           /\ AlignClassesOf(b) = {"has-text-align-" \o a}
      [] b.block = "wp:buttons" ->
           /\ HasAttr(b, "layout.justifyContent")
           /\ AttrOf(b, "layout.justifyContent") = a
      [] OTHER -> FALSE

OwnAlign(item) == item.type \in ALIGNABLE /\ Truthy(Get(item.align))

\* C4: in every section converter a heading, paragraph or buttons item that
\* has an align of its own is rendered with that alignment and never with
\* the section-level (explicit or default) one; the same for the content of
\* the cards of a columns section.
C4_AlignOverride ==
    SectionDone =>
        /\ Len(RenderedContent) = Len(input.content)
        /\ \A i \in 1..Len(input.content) :
              OwnAlign(input.content[i]) =>
                  CarriesAlign(RenderedContent[i], input.content[i].align)
        /\ \A k \in 1..Len(input.items) :
              \A i \in 1..Len(input.items[k].content) :
                  OwnAlign(input.items[k].content[i]) =>
                      CarriesAlign(RenderedCard(k)[i],
                                   input.items[k].content[i].align)

\* A hero without align (effective alignment center) whose heading has
\* align left: the heading carries the left class and not the center class.
C4_Witness ==
    /\ SectionDone
    /\ input.type = "hero"
    /\ input.align = Absent
    /\ Len(input.content) >= 1
    /\ input.content[1].type = "heading"
    /\ input.content[1].align = "left"
    /\ HasClass(RenderedContent[1], "has-text-align-left")
    /\ ~HasClass(RenderedContent[1], "has-text-align-center")

\* The effective alignment of a section: explicit align, else the default
\* of its archetype, else none.
EffectiveAlign(section) ==
    IF Truthy(Get(section.align)) THEN section.align
    ELSE DEFAULT_SECTION_ALIGN(Get(section.type))

\* C5: every section converter reachable from convert_section (footer
\* included) resolves the effective alignment and, when there is one, each
\* heading, paragraph and buttons item of the section without an align of
\* its own is rendered with it.
C5_AlignPropagated ==
    SectionDone =>
        \A i \in 1..Len(input.content) :
            (/\ input.content[i].type \in ALIGNABLE
             /\ ~OwnAlign(input.content[i])
             /\ EffectiveAlign(input) # None)
            => CarriesAlign(RenderedContent[i], EffectiveAlign(input))

\* C5 for every converter but the footer.
AlignPropagatedExceptFooter ==
    (SectionDone /\ input.type # "footer") => C5_AlignPropagated

(***************************************************************************)
(* Calls of convert_layout                                                 *)
(***************************************************************************)
\* Longest section sequence of a layout document of the inputs.
MaxSections == 3

\* Sections that convert to the empty string (generic, nothing to wrap) ...
EmptySections == {NoSection, [NoSection EXCEPT !.type = "text-section"]}
\* ... and sections that are emitted: a generic group, a hero, and an
\* unwrapped image gallery, whose string holds two blocks (a spacer item of
\* the default height and the gallery) joined by a blank line.
EmittedSections ==
    {[NoSection EXCEPT !.type = "text-section",
                       !.content = ContentOfTypes(<<"paragraph">>)],
     [NoSection EXCEPT !.type = "hero",
                       !.content = ContentOfTypes(<<"heading">>)],
     [NoSection EXCEPT !.type = "image-gallery",
                       !.content = <<[NoItem EXCEPT !.type = "spacer"]>>,
                       !.images = <<[description |-> Absent, url |-> "a.jpg",
                                     caption_title |-> Absent,
                                     caption_meta |-> Absent]>>]}

LayoutInputs ==
    {[sections |-> ss] :
        ss \in SeqsUpTo(EmptySections \cup EmittedSections, MaxSections)}

InitLayout ==
    /\ fn = "convert_layout"
    /\ pc = "call"
    /\ input \in LayoutInputs
    /\ output = NoOutput

CallConvertLayout ==
    /\ fn = "convert_layout"
    /\ pc = "call"
    /\ IF convert_layout_exc(input) # ""
       THEN /\ pc' = "raised"
            /\ output' = convert_layout_exc(input)
       ELSE /\ pc' = "done"
            /\ output' = convert_layout(input)
    /\ UNCHANGED <<fn, input>>

NextLayout == CallConvertLayout

SpecLayout == InitLayout /\ [][NextLayout]_vars

LayoutDone == fn = "convert_layout" /\ pc = "done"

\* The sections of the input that produce non-empty output, in input order.
EmittedOf(sections) == SelectSeq(sections, LAMBDA sec : convert_section(sec) # <<>>)

\* The inter-section spacer, and how many of them the output holds.
IsSectionSpacer(b) == b = spacer(30)
SectionSpacerCount == Len(SelectSeq(output, IsSectionSpacer))

\* C1: the output of convert_layout holds exactly N-1 inter-section spacers,
\* N the number of sections with non-empty output (none when N = 0), and
\* none after the last emitted section.
C1_SpacerCount ==
    LayoutDone =>
        LET N == Len(EmittedOf(input.sections))
        IN  /\ SectionSpacerCount = (IF N = 0 THEN 0 ELSE N - 1)
            /\ ~IsSectionSpacer(output[Len(output)])

\* C2: convert_layout(D) equals convert_layout(D') for D' = D without the
\* sections that convert to empty output.
C2_EmptyElision ==
    LayoutDone =>
        output = convert_layout([sections |-> EmittedOf(input.sections)])

\* Both hold whenever the last section of the document is an emitted one.
SpacersWhenLastEmitted ==
    (/\ LayoutDone
     /\ input.sections # <<>>
     /\ convert_section(input.sections[Len(input.sections)]) # <<>>)
    => C1_SpacerCount /\ C2_EmptyElision

\* C3: the units of the emitted sections appear in the output in the input
\* order of their sections, none reordered, duplicated or merged: without the
\* inter-section spacers the output is the style block followed by the
\* output of each emitted section in turn.
C3_OrderPreserved ==
    LayoutDone =>
        LET emitted == EmittedOf(input.sections)
        IN  SelectSeq(output, LAMBDA b : ~IsSectionSpacer(b))
              = <<theme_override_css>>
                \o Flatten([k \in 1..Len(emitted) |->
                               convert_section(emitted[k])])

\* A paragraph section, an empty section and a hero: the output is the style
\* block, the paragraph group, one spacer and the hero group.
C3_Witness ==
    /\ LayoutDone
    /\ Len(input.sections) = 3
    /\ input.sections[1].type = "text-section"
    /\ input.sections[1].content # <<>>
    /\ input.sections[2] = NoSection
    /\ input.sections[3].type = "hero"
    /\ Len(output) = 4
    /\ output[2].inner[1].text = "P1"
    /\ IsSectionSpacer(output[3])
    /\ output[4].inner[1].text = "H1"

(***************************************************************************)
(* Calls of the two content item converters                                *)
(***************************************************************************)
\* The outcomes random.choices is given, and the length of the stream of
\* draws of one run.
RandDraws == {"a1b2c3", "zz99zz"}
MaxDraws == 2
RandStreams == [1..MaxDraws -> RandDraws]

\* The stream of a call that draws nothing.
Draw1Stream == [i \in 1..MaxDraws |-> "a1b2c3"]

\* The kinds each converter handles.
CONVERTER_KINDS == {"heading", "paragraph", "image", "buttons", "list", "spacer", "separator", "columns"}
BUILDER_KINDS == CONVERTER_KINDS \cup {"quote", "icon_list", "image-gallery"}

\* One item of every kind a converter handles (a sequence: the items of a
\* buttons item are dicts, those of a list item strings) ...
KnownItems ==
    << [NoItem EXCEPT !.type = "heading", !.text = "Title"],
       [NoItem EXCEPT !.type = "heading", !.text = "Title",
                      !.font_size = "48px"],
       [NoItem EXCEPT !.type = "heading", !.text = "Title",
                      !.font_size = "large"],
       [NoItem EXCEPT !.type = "paragraph", !.text = "R&D"],
       [NoItem EXCEPT !.type = "quote", !.text = "R&D"],
       [NoItem EXCEPT !.type = "separator"],
       [NoItem EXCEPT !.type = "spacer"],
       [NoItem EXCEPT !.type = "image", !.alt = "<b>"],
       [NoItem EXCEPT !.type = "buttons", !.items = <<NoButton>>],
       [NoItem EXCEPT !.type = "list", !.items = <<"a", "b">>],
       [NoItem EXCEPT !.type = "icon_list", !.items = <<"a">>],
       [NoItem EXCEPT !.type = "image-gallery",
                      !.images = <<[alt |-> Absent, width |-> AbsentInt,
                                    height |-> AbsentInt]>>],
       [NoItem EXCEPT !.type = "columns",
                      !.items = <<[content |->
                                     <<[NoItem EXCEPT !.type = "bogus"],
                                       [NoItem EXCEPT !.type = "heading",
                                                      !.text = "H"]>>]>>] >>

\* ... and items of other types, a missing and a null type among them, with
\* and without the fields of a known kind.
UnknownTypes == {"bogus", "video", "Heading", "", None, Absent}
UnknownItems ==
    {[NoItem EXCEPT !.type = t, !.text = x, !.color = c, !.items = its] :
        t \in UnknownTypes, x \in {Absent, "text"}, c \in {Absent, "#ffffff"},
        its \in {<<>>, <<"a">>}}

ImgMaps == {EmptyImgMap, [names |-> <<>>, indexes |-> << <<-1, [url |-> "up.jpg", id |-> 7]>> >>], [names |-> << <<"bilde.jpg", [url |-> "bilde-up.jpg", id |-> AbsentInt]>> >>, indexes |-> <<>>]}

\* The item of the call: a known one (k > 0) or an unknown one.
InitItem ==
    /\ pc = "call"
    /\ output = NoOutput
    /\ \E k \in 0..Len(KnownItems), u \in UnknownItems :
          LET it == IF k = 0 THEN u ELSE KnownItems[k] IN
          \/ /\ fn = "_convert_content_item"
             /\ input = [item |-> it, img_map |-> <<>>, rand |-> <<>>]
          \/ /\ fn = "_build_content_item"
             /\ \E m \in ImgMaps, r \in RandStreams :
                   input = [item |-> it, img_map |-> m, rand |-> r]

CallConvertContentItem ==
    /\ fn = "_convert_content_item"
    /\ pc = "call"
    /\ IF convert_content_item_exc(input.item) # ""
       THEN /\ pc' = "raised"
            /\ output' = convert_content_item_exc(input.item)
       ELSE /\ pc' = "done"
            /\ output' = convert_content_item(input.item)
    /\ UNCHANGED <<fn, input>>

CallBuildContentItem ==
    /\ fn = "_build_content_item"
    /\ pc = "call"
    /\ IF build_content_item_exc(input.item) # ""
       THEN /\ pc' = "raised"
            /\ output' = build_content_item_exc(input.item)
       ELSE /\ pc' = "done"
            /\ output' = build_content_item(input.item, input.img_map,
                                            input.rand, 0)
    /\ UNCHANGED <<fn, input>>

NextItem == CallConvertContentItem \/ CallBuildContentItem

SpecItem == InitItem /\ [][NextItem]_vars

\* A call of a converter on an item whose type it does not handle is over.
ConvertUnknownOver ==
    /\ fn = "_convert_content_item"
    /\ pc # "call"
    /\ Get(input.item.type) \notin CONVERTER_KINDS

BuildUnknownOver ==
    /\ fn = "_build_content_item"
    /\ pc # "call"
    /\ GetOr(input.item.type, "") \notin BUILDER_KINDS

\* C11: for every content item whose type is not one of the recognised
\* kinds, _convert_content_item and _build_content_item return, without
\* raising, a comment that is not empty and ends in the name of the type.
C11_UnknownTypeComment ==
    /\ ConvertUnknownOver =>
          /\ pc = "done"
          /\ output.block = "comment"
          /\ output.text = "unknown content type: " \o Get(input.item.type)
    /\ BuildUnknownOver =>
          /\ pc = "done"
          /\ output.block = "comment"
          /\ output.text = "Unknown: " \o GetOr(input.item.type, "")

\* Both converters have returned the placeholder naming the type bogus.
C11_Witness ==
    /\ fn = "_build_content_item"
    /\ pc = "done"
    /\ input.item.type = "bogus"
    /\ output.text = "Unknown: bogus"
    /\ convert_content_item(input.item).text = "unknown content type: bogus"

(***************************************************************************)
(* Calls of convert_section on sections of no recognised archetype         *)
(***************************************************************************)
\* Longest content sequence of a section of the inputs.
MaxGenericItems == 2

\* The archetypes convert_section dispatches on, and types that are none of
\* them (a missing type among them).
SECTION_ARCHETYPES == {"hero", "columns", "features", "stats", "cta", "image-gallery", "logo-strip", "footer"}
GenericTypes == {Absent, "", "bogus", "text-section", "testimonial", "Hero"}

GenericItems ==
    {[NoItem EXCEPT !.type = "heading", !.text = "H"],
     [NoItem EXCEPT !.type = "paragraph", !.text = "P", !.align = "left"],
     [NoItem EXCEPT !.type = "spacer"]}

GenericPaddings ==
    {DictAbsent, DictNone, <<>>, << <<"top", "20px">>, <<"left", "8px">> >>}

InitGeneric ==
    /\ fn = "convert_section"
    /\ pc = "call"
    /\ output = NoOutput
    /\ \E t \in GenericTypes, a \in {Absent, "right"},
          bg \in {Absent, "", "#ffffff"}, pad \in GenericPaddings,
          c \in SeqsUpTo(GenericItems, MaxGenericItems) :
          input = [NoSection EXCEPT !.type = t, !.align = a,
                                    !.background_color = bg,
                                    !.padding = pad, !.content = c]

NextGeneric == CallConvertSection

SpecGeneric == InitGeneric /\ [][NextGeneric]_vars

\* A call of convert_section on a section of no recognised archetype is
\* over.
GenericOver ==
    /\ fn = "convert_section"
    /\ pc # "call"
    /\ GetOr(input.type, "") \notin SECTION_ARCHETYPES

\* The section has no content, no background colour and no padding.
NothingToWrap(section) ==
    /\ section.content = <<>>
    /\ ~Truthy(Get(section.background_color))
    /\ ~TruthyDict(GetDict(section.padding))

\* C12: for every section whose type is no recognised archetype or is
\* missing, convert_section returns without raising; the result is empty
\* if and only if the section has no content, no background_color and no
\* padding, and is otherwise one full-width group that wraps the converted
\* content items in input order and carries the section's background colour
\* and padding, and no others.
C12_GenericFallback ==
    GenericOver =>
        /\ pc = "done"
        /\ (output = <<>>) <=> NothingToWrap(input)
        /\ ~NothingToWrap(input) =>
              LET g == output[1]
                  bg == Get(input.background_color)
                  pad == GetDict(input.padding)
              IN  /\ Len(output) = 1
                  /\ g.block = "wp:group"
                  /\ AttrOf(g, "align") = "full"
                  /\ HasClass(g, "alignfull")
                  /\ Len(g.inner) = Len(input.content)
                  /\ \A i \in 1..Len(input.content) :
                        g.inner[i]
                            = convert_content_item(
                                  apply_section_align(
                                      input.content[i],
                                      resolve_section_align(input)))
                  /\ IF Truthy(bg)
                     THEN /\ AttrOf(g, "style.color.background") = bg
                          /\ \E k \in 1..Len(g.css) :
                                g.css[k] = <<"background-color", bg>>
                     ELSE ~HasAttr(g, "style.color.background")
                          /\ ~HasDecl(g, "background-color")
                  /\ \A k \in 1..Len(PADDING_SIDES) :
                        LET side == PADDING_SIDES[k] IN
                        IF TruthyDict(pad) /\ HasKey(pad, side)
                        THEN /\ AttrOf(g, "style.spacing.padding." \o side)
                                  = Item(pad, side)
                             /\ \E j \in 1..Len(g.css) :
                                   g.css[j] = <<"padding-" \o side,
                                                Item(pad, side)>>
                        ELSE /\ ~HasAttr(g, "style.spacing.padding." \o side)
                             /\ ~HasDecl(g, "padding-" \o side)

\* A section of type bogus with a background colour and no content is
\* rendered as an empty full-width group of that colour.
C12_Witness ==
    /\ GenericOver
    /\ pc = "done"
    /\ input.type = "bogus"
    /\ input.content = <<>>
    /\ input.background_color = "#ffffff"
    /\ Len(output) = 1
    /\ output[1].block = "wp:group"
    /\ output[1].inner = <<>>
    /\ AttrOf(output[1], "style.color.background") = "#ffffff"

(***************************************************************************)
(* Calls of convert_layout on documents whose items may lack their text    *)
(***************************************************************************)
\* Longest content sequence of a section of the inputs.
MaxTextItems == 2

\* Headings, paragraphs and button entries with and without the text key,
\* and a spacer, which has none.
TextItems ==
    {[NoItem EXCEPT !.type = t, !.text = x] :
        t \in {"heading", "paragraph"}, x \in {Absent, "text"}}
    \cup {[NoItem EXCEPT !.type = "buttons",
                         !.items = <<[NoButton EXCEPT !.text = x]>>] :
            x \in {Absent, "Go"}}
    \cup {[NoItem EXCEPT !.type = "spacer"]}

\* Sections that are emitted as one group each, whatever their content.
TextSections ==
    {[NoSection EXCEPT !.type = t, !.content = c] :
        t \in {"hero", "cta", "footer", "text-section"},
        c \in SeqsUpTo(TextItems, MaxTextItems) \ {<<>>}}

\* The document of the call: one such section, alone or next to a hero.
InitText ==
    /\ fn = "convert_layout"
    /\ pc = "call"
    /\ output = NoOutput
    /\ \E sec \in TextSections :
          LET hero == [NoSection EXCEPT
                          !.type = "hero",
                          !.content = ContentOfTypes(<<"heading">>)]
          IN  input \in {[sections |-> <<sec>>],
                         [sections |-> <<sec, hero>>],
                         [sections |-> <<hero, sec>>]}

NextText == CallConvertLayout

SpecText == InitText /\ [][NextText]_vars

\* The item lacks the text key: a heading, a paragraph, or a buttons item
\* one of whose entries lacks it.
LacksText(item) ==
    \/ item.type \in {"heading", "paragraph"} /\ item.text = Absent
    \/ /\ item.type = "buttons"
       /\ \E j \in 1..Len(item.items) : item.items[j].text = Absent

DocLacksText(layout_data) ==
    \E k \in 1..Len(layout_data.sections) :
        \E i \in 1..Len(layout_data.sections[k].content) :
            LacksText(layout_data.sections[k].content[i])

\* The groups of the sections in the output of convert_layout, in order.
SectionGroups == SelectSeq(output, LAMBDA b : b.block = "wp:group")

\* The block rendered for item i of section k has an empty text body (each
\* of its buttons whose entry lacks the text, for a buttons item).
EmptyTextBody(k, i) ==
    LET item == input.sections[k].content[i]
        b == SectionGroups[k].inner[i]
    IN  IF item.type = "buttons"
        THEN \A j \in 1..Len(item.items) :
                item.items[j].text = Absent => b.inner[j].text = ""
        ELSE b.text = ""

\* C13: for every layout document in which a heading item, a paragraph
\* item or a button entry lacks the text field, convert_layout returns
\* without raising and the item is rendered with an empty text body.
C13_MissingTextRendered ==
    (fn = "convert_layout" /\ pc # "call" /\ DocLacksText(input)) =>
        /\ pc = "done"
        /\ \A k \in 1..Len(input.sections) :
              \A i \in 1..Len(input.sections[k].content) :
                  LacksText(input.sections[k].content[i])
                      => EmptyTextBody(k, i)

\* What the code does instead: the call raises KeyError exactly when some
\* item of the document lacks its text.
MissingTextRaises ==
    (fn = "convert_layout" /\ pc # "call") =>
        IF DocLacksText(input) THEN pc = "raised" /\ output = "KeyError"
        ELSE pc = "done"

(***************************************************************************)
(* Calls of convert_section: the two forms of a colour background          *)
(***************************************************************************)
BackgroundColours == {"#ff0000", "#00ff00"}

\* One section type for each converter that draws a colour background.
BackgroundTypes == {"hero", "cta", "footer", "columns", "features", "stats", "image-gallery", "logo-strip", "text-section"}

\* background = {"type": "color", "value": V}
StructuredBackground(section, V) ==
    [section EXCEPT !.background.type = "color", !.background.value = V]

\* background_color = V
FlatBackground(section, V) == [section EXCEPT !.background_color = V]

InitBackground ==
    /\ fn = "convert_section"
    /\ pc = "call"
    /\ output = NoOutput
    /\ \E t \in BackgroundTypes, V \in BackgroundColours,
          c \in {<<>>, ContentOfTypes(<<"heading">>)} :
          LET section == [NoSection EXCEPT !.type = t, !.content = c]
          IN  input \in {StructuredBackground(section, V),
                         FlatBackground(section, V)}

NextBackground == CallConvertSection

SpecBackground == InitBackground /\ [][NextBackground]_vars

\* The colour the section gives in either form.
GivenColour(section) ==
    IF section.background_color # Absent THEN section.background_color
    ELSE section.background.value

\* The background colour of the container that wraps the output: the one
\* group returned, when it is one and has a background colour.
WrapperBackground ==
    IF /\ Len(output) = 1
       /\ output[1].block = "wp:group"
       /\ HasAttr(output[1], "style.color.background")
    THEN AttrOf(output[1], "style.color.background")
    ELSE None

\* C14: for every section converter that draws a colour background and
\* every colour V, the section that gives V as background = {type: color,
\* value: V} and the one that gives it as background_color = V are both
\* converted, without raising, to a wrapping container whose background
\* colour is V.
C14_BothBackgroundForms ==
    (fn = "convert_section" /\ pc # "call") =>
        /\ pc = "done"
        /\ WrapperBackground = GivenColour(input)

\* What the code does: the hero reads only the structured form, the
\* columns, gallery, logo-strip and generic converters only the flat one;
\* the cta and the footer read both.
BackgroundFormsRead ==
    (fn = "convert_section" /\ pc # "call") =>
        /\ pc = "done"
        /\ LET structured == input.background_color = Absent
               t == input.type
           IN  CASE t \in {"cta", "footer"} ->
                      WrapperBackground = GivenColour(input)
                 [] t = "hero" ->
                      WrapperBackground
                          = (IF structured THEN GivenColour(input)
                             ELSE "#1a1a2e")
                 [] OTHER ->
                      WrapperBackground
                          = (IF structured THEN None ELSE GivenColour(input))

(***************************************************************************)
(* Calls of the Kadence builders: each builder is called twice with the    *)
(* same arguments; `output` collects the markup of the calls made so far.  *)
(***************************************************************************)
\* Most buttons of an adv_btn call of the inputs.
MaxButtons == 2

\* No unique_id, an empty one and an explicit one.
UniqueIds == {None, "", "_fixed1"}

KB_BUILDERS == {"row_layout", "kb_column", "adv_heading", "adv_btn", "info_box", "kb_spacer", "kb_image", "testimonials", "icon_list", "form_block"}

\* A button dict of adv_btn with every key missing.
NoBtn ==
    [text |-> Absent, link |-> Absent, color |-> Absent,
     background |-> Absent, border_radius |-> Absent, size |-> Absent]

ButtonsData ==
    SeqsUpTo({[NoBtn EXCEPT !.text = "Go"],
              [NoBtn EXCEPT !.text = "Buy", !.background = "#c8a97e"]},
             MaxButtons)

\* The arguments of the call besides unique_id: the inner blocks or items,
\* one colour and one alignment argument (each builder reads those it has).
InitKadence ==
    /\ fn \in KB_BUILDERS
    /\ pc = "call"
    /\ output = NoOutput
    /\ \E u \in UniqueIds, c \in {None, "#333333"}, a \in {None, "center"},
          n \in 0..1 :
          IF fn = "adv_btn"
          THEN \E b \in ButtonsData :
                  input = [unique_id |-> u, color |-> None, align |-> "center",
                           n |-> Len(b), buttons_data |-> b]
          ELSE input = [unique_id |-> u, color |-> c, align |-> a, n |-> n,
                        buttons_data |-> <<>>]

\* n inner blocks / items of a call.
InnerBlocks(n) == [i \in 1..n |-> gb_separator]
TestimonialItems(n) == [i \in 1..n |-> [text |-> "Good", name |-> "Kari", title |-> Absent, rating |-> AbsentInt]]
IconItems(n) == [i \in 1..n |-> [icon |-> Absent, text |-> "a"]]

\* The call made: pc goes from "call" to "again" to "done".
Returned(markup) ==
    /\ output' = Append(output, markup)
    /\ pc' = IF pc = "call" THEN "again" ELSE "done"
    /\ UNCHANGED <<fn, input>>

CallRowLayout ==
    /\ fn = "row_layout"
    /\ pc \in {"call", "again"}
    /\ \E rand \in RandDraws :
          Returned(row_layout(InnerBlocks(input.n), input.unique_id, 1, "equal", input.color, None, NoneInt, None, <<40, 40, 30, 30>>, <<>>, NoneInt, "full", NoneInt, "middle", rand))

CallKbColumn ==
    /\ fn = "kb_column"
    /\ pc \in {"call", "again"}
    /\ \E rand \in RandDraws :
          Returned(kb_column(InnerBlocks(input.n), input.unique_id, input.color, <<>>, None, input.align, rand))

CallAdvHeading ==
    /\ fn = "adv_heading"
    /\ pc \in {"call", "again"}
    /\ \E rand \in RandDraws :
          Returned(adv_heading("Title", input.unique_id, 2 + input.n, input.color, NoneInt, input.align, None, rand))

CallAdvBtn ==
    /\ fn = "adv_btn"
    /\ pc \in {"call", "again"}
    /\ \E rand \in [1..(1 + Len(input.buttons_data)) -> RandDraws] :
          Returned(adv_btn(input.buttons_data, input.unique_id, input.align, rand))

CallInfoBox ==
    /\ fn = "info_box"
    /\ pc \in {"call", "again"}
    /\ \E rand \in RandDraws :
          Returned(info_box("Title", "Text", input.unique_id, None, "icon", None, None, input.color, None, None, Or(input.align, "center"), rand))

CallKbSpacer ==
    /\ fn = "kb_spacer"
    /\ pc \in {"call", "again"}
    /\ \E rand \in RandDraws :
          Returned(kb_spacer(40 + input.n, input.unique_id, rand))

CallKbImage ==
    /\ fn = "kb_image"
    /\ pc \in {"call", "again"}
    /\ \E rand \in RandDraws :
          Returned(kb_image("up.jpg", input.unique_id, "<b>", input.n, input.align, rand))

CallTestimonials ==
    /\ fn = "testimonials"
    /\ pc \in {"call", "again"}
    /\ \E rand \in RandDraws :
          Returned(testimonials(TestimonialItems(input.n), input.unique_id, 1, "card", rand))

CallIconList ==
    /\ fn = "icon_list"
    /\ pc \in {"call", "again"}
    /\ \E rand \in RandDraws :
          Returned(icon_list(IconItems(input.n), input.unique_id, "fe_check", input.color, rand))

CallFormBlock ==
    /\ fn = "form_block"
    /\ pc \in {"call", "again"}
    /\ \E rand \in RandDraws :
          Returned(form_block(input.unique_id, "post@haugli.no", "Ny henvendelse fra nettsiden", "Send melding", <<>>, rand))

NextKadence ==
    \/ CallRowLayout
    \/ CallKbColumn
    \/ CallAdvHeading
    \/ CallAdvBtn
    \/ CallInfoBox
    \/ CallKbSpacer
    \/ CallKbImage
    \/ CallTestimonials
    \/ CallIconList
    \/ CallFormBlock

SpecKadence == InitKadence /\ [][NextKadence]_vars

\* Every identifier in the markup of a builder: its uniqueID, the
\* identifiers in its body, and the uniqueID of each block it built inside
\* itself (the blocks handed in by the caller carry none).
IdsOf(b) ==
    {AttrOf(b, "uniqueID")}
    \cup {b.ids[i] : i \in 1..Len(b.ids)}
    \cup {AttrOf(b.inner[i], "uniqueID") :
            i \in {j \in 1..Len(b.inner) : HasAttr(b.inner[j], "uniqueID")}}

\* Both calls of a builder that was given an explicit unique_id are over.
ExplicitIdDone ==
    fn \in KB_BUILDERS /\ pc = "done" /\ Truthy(input.unique_id)

\* C16: a builder of kadence_blocks called twice with the same arguments,
\* an explicit unique_id among them, returns the same markup both times,
\* and every identifier in that markup is the supplied one.
C16_ExplicitIdDeterministic ==
    ExplicitIdDone =>
        /\ output[1] = output[2]
        /\ IdsOf(output[1]) = {input.unique_id}
        /\ IdsOf(output[2]) = {input.unique_id}

\* What the code does: the claim holds of every builder but adv_btn, and of
\* adv_btn when it is given no button; the identifier of the wrapper itself
\* is the supplied one in every builder.
ExplicitIdExceptButtons ==
    ExplicitIdDone =>
        /\ AttrOf(output[1], "uniqueID") = input.unique_id
        /\ AttrOf(output[2], "uniqueID") = input.unique_id
        /\ (fn # "adv_btn" \/ input.buttons_data = <<>>)
              => C16_ExplicitIdDeterministic

(***************************************************************************)
(* Calls of convert_layout and build_page_content on layout documents      *)
(* whose sections are of every type of both compilers.                     *)
(***************************************************************************)
\* Longest section sequence of a document of the inputs.
MaxMarkupSections == 2

MarkupTypes == {"hero", "columns", "text-section", "media-text", "testimonial", "cta", "image-gallery", "logo-strip", "contact", "map", "footer", "bogus"}

\* The content items of the sections: the known items, and a form.
MarkupItems ==
    KnownItems
    \o <<[NoItem EXCEPT !.type = "form",
                        !.fields = <<[label |-> "Telefon", type |-> "tel",
                                      required |-> TRUE]>>]>>

\* The section of a type whose content, and whose one card, hold item k
\* (none for k = 0); a gallery or a logo strip has one image.
MarkupSection(t, k) ==
    LET content == IF k = 0 THEN <<>> ELSE <<MarkupItems[k]>> IN
    [NoSection EXCEPT
        !.type = t,
        !.content = content,
        !.items = IF t \in {"columns", "image-gallery"}
                  THEN <<[NoCard EXCEPT !.content = content]>> ELSE <<>>,
        !.images = IF t \in {"image-gallery", "logo-strip"}
                   THEN <<[description |-> Absent, url |-> "a.jpg",
                           caption_title |-> Absent, caption_meta |-> Absent]>>
                   ELSE <<>>]

UploadedImages == {<<>>, <<[filename |-> "hero.jpg", original_index |-> 0, url |-> "hero-up.jpg", id |-> 7]>>}

\* The types of the sections that follow the first: a hero, a footer (which
\* build_page_content skips), a map and a section of no known type (which
\* gives the empty string when it has no content).
FollowingTypes == {"hero", "footer", "map", "bogus"}

\* The documents: none, or a first section of any type and the sections
\* that follow it.  convert_layout takes the document alone.
InitMarkup ==
    /\ fn \in {"convert_layout", "build_page_content"}
    /\ pc = "call"
    /\ output = NoOutput
    /\ \E t \in MarkupTypes,
          ts \in SeqsUpTo(FollowingTypes, MaxMarkupSections - 1),
          k \in 0..Len(MarkupItems), up \in UploadedImages,
          rand \in RandStreams, none \in BOOLEAN :
          /\ fn = "convert_layout" => up = <<>> /\ rand = Draw1Stream
          /\ none => t = "bogus" /\ ts = <<>> /\ k = 0
          /\ input = [sections |->
                          IF none THEN <<>>
                          ELSE [i \in 1..(Len(ts) + 1) |->
                                   MarkupSection(IF i = 1 THEN t ELSE ts[i - 1],
                                                 k)],
                      uploaded_images |-> up, rand |-> rand]

CallBuildPageContent ==
    /\ fn = "build_page_content"
    /\ pc = "call"
    /\ IF build_page_content_exc(input) # ""
       THEN /\ pc' = "raised"
            /\ output' = build_page_content_exc(input)
       ELSE /\ pc' = "done"
            /\ output' = build_page_content(input, input.uploaded_images,
                                            input.rand)
    /\ UNCHANGED <<fn, input>>

NextMarkup ==
    \/ CallConvertLayout
    \/ CallBuildPageContent

SpecMarkup == InitMarkup /\ [][NextMarkup]_vars

\* The markers are read in order with the stack of the start markers that
\* are open: a start marker is pushed, a self-closing marker leaves the
\* stack alone, an end marker must be that of the marker opened last, which
\* it closes; at the end no marker is open.
RECURSIVE balanced_from(_, _, _)
balanced_from(ms, i, open) ==
    IF i > Len(ms) THEN open = <<>>
    ELSE CASE ms[i][1] = "start" ->
                balanced_from(ms, i + 1, Append(open, ms[i][2]))
           [] ms[i][1] = "void" -> balanced_from(ms, i + 1, open)
           [] OTHER ->
                /\ open # <<>>
                /\ ms[i][2] = "/" \o open[Len(open)]
                /\ balanced_from(ms, i + 1, SubSeq(open, 1, Len(open) - 1))

balanced(ms) == balanced_from(ms, 1, <<>>)

\* The most start markers open at once in the first n markers.
RECURSIVE open_after(_, _)
open_after(ms, n) ==
    IF n = 0 THEN 0
    ELSE open_after(ms, n - 1)
         + (CASE ms[n][1] = "start" -> 1 [] ms[n][1] = "end" -> -1 [] OTHER -> 0)

MarkupDone ==
    fn \in {"convert_layout", "build_page_content"} /\ pc = "done"

\* C17: in the markup convert_layout and build_page_content return, the
\* block markers are balanced and properly nested: every start marker that
\* is not self-closing is closed by the end marker of its type, markers
\* close in last-opened-first-closed order, and no end marker stands
\* without an open start marker of its type.
C17_MarkersBalanced == MarkupDone => balanced(markers(output))

\* build_page_content has returned two sections, with a self-closing block
\* and a row nested in a column of a row (five start markers open at once).
C17_Witness ==
    /\ fn = "build_page_content"
    /\ pc = "done"
    /\ Len(output) = 2
    /\ LET ms == markers(output) IN
       /\ \E i \in 1..Len(ms) : ms[i][1] = "void"
       /\ \E i \in 1..Len(ms) : open_after(ms, i) >= 5
       /\ balanced(ms)

(***************************************************************************)
(* Calls of build_footer_content on footer documents whose content holds   *)
(* headings, paragraphs and columns items in every order.                  *)
(***************************************************************************)
\* Longest content of the footer section of the inputs.
MaxFooterContent == 3

\* A columns item of one column that holds one heading.
ColumnsItem(text) ==
    [NoItem EXCEPT !.type = "columns",
                   !.items = <<[content |-> <<[NoItem EXCEPT !.type = "heading",
                                                             !.text = text]>>]>>]

\* The items of the footer content, each with a text of its own; the size
\* of the last one is not a number.
FooterContentItems ==
    << [NoItem EXCEPT !.type = "heading", !.text = "A"],
       [NoItem EXCEPT !.type = "paragraph", !.text = "B"],
       ColumnsItem("C"),
       ColumnsItem("D"),
       [NoItem EXCEPT !.type = "heading", !.text = "E", !.font_size = "large"] >>

FooterBackgrounds ==
    {NoSection,
     [NoSection EXCEPT !.background.value = "#ff0000"],
     [NoSection EXCEPT !.background_color = "#333333"]}

\* A document without sections, or one whose first section has the content;
\* ks are the indexes of the items of the content.
InitFooterContent ==
    /\ fn = "build_footer_content"
    /\ pc = "call"
    /\ output = NoOutput
    /\ \E ks \in SeqsUpTo(1..Len(FooterContentItems), MaxFooterContent),
          section \in FooterBackgrounds, rand \in RandStreams,
          none \in BOOLEAN :
          /\ none => ks = <<>> /\ section = NoSection
          /\ Len(ks) > 1 => section = NoSection
          /\ input = [sections |->
                          IF none THEN <<>>
                          ELSE <<[section EXCEPT
                                     !.type = "footer",
                                     !.content = [i \in 1..Len(ks) |->
                                                     FooterContentItems[ks[i]]]]>>,
                      rand |-> rand]

CallBuildFooterContent ==
    /\ fn = "build_footer_content"
    /\ pc = "call"
    /\ IF build_footer_content_exc(input) # ""
       THEN /\ pc' = "raised"
            /\ output' = build_footer_content_exc(input)
       ELSE /\ pc' = "done"
            /\ output' = build_footer_content(input, input.rand)
    /\ UNCHANGED <<fn, input>>

NextFooterContent == CallBuildFooterContent

SpecFooterContent == InitFooterContent /\ [][NextFooterContent]_vars

\* The text by which an item of the input is known ...
ItemText(item) ==
    IF Get(item.type) = "columns" THEN item.items[1].content[1].text
    ELSE item.text

\* ... and the text by which its rendering is known: that of the heading or
\* paragraph, or of the heading in the first column of the row.
RenderedText(b) ==
    IF b.block = "wp:kadence/rowlayout" THEN b.inner[1].inner[1].text
    ELSE b.text

FooterContentDone ==
    /\ fn = "build_footer_content"
    /\ pc = "done"
    /\ input.sections # <<>>

\* The items rendered in the footer: the blocks in the column of its row.
FooterRendered == output[1].inner[1].inner

\* C18: build_footer_content renders every content item of the footer
\* section exactly once and in input order, whatever the position and the
\* number of the columns items in the content.
C18_FooterItemsInOrder ==
    FooterContentDone =>
        LET content == input.sections[1].content IN
        /\ Len(FooterRendered) = Len(content)
        /\ \A i \in 1..Len(content) :
              RenderedText(FooterRendered[i]) = ItemText(content[i])

\* What the code does: the items that are no columns item come first, in
\* input order; the last columns item of the content comes after them, and
\* every other columns item is dropped.
FooterColumnsLast ==
    FooterContentDone =>
        LET content == input.sections[1].content
            top_items == SelectSeq(content,
                                   LAMBDA item : Get(item.type) # "columns")
            at == columns_item_of(content, Len(content))
            kept == top_items \o SeqIf(at # 0, <<content[at]>>)
        IN  /\ Len(FooterRendered) = Len(kept)
            /\ \A i \in 1..Len(kept) :
                  RenderedText(FooterRendered[i]) = ItemText(kept[i])

(***************************************************************************)
(* Calls of convert_layout and build_page_content on documents of one      *)
(* section with one content item, whose optional styling fields are given  *)
(* or absent in every combination.                                         *)
(***************************************************************************)
FieldColours == {Absent, "#333333"}
FieldSizes == {Absent, "16px"}
FieldAligns == {Absent, "right"}

\* A heading or a paragraph ...
TextFieldItems ==
    {[NoItem EXCEPT !.type = t, !.text = "T", !.color = c, !.font_size = z,
                    !.align = a] :
        t \in {"heading", "paragraph"}, c \in FieldColours, z \in FieldSizes,
        a \in FieldAligns}

\* ... or a buttons item with one entry.
ButtonFieldItems ==
    {[NoItem EXCEPT !.type = "buttons", !.align = a,
                    !.items = <<[NoButton EXCEPT !.bg_color = bg,
                                                 !.text_color = tc,
                                                 !.border_radius = r,
                                                 !.style = st]>>] :
        a \in FieldAligns, bg \in {Absent, "#ff0000"}, tc \in FieldColours,
        r \in {Absent, "8px"}, st \in {Absent, "outline"}}

\* The section is a text section (no alignment of its own) or a hero
\* (whose alignment, "center", is handed down to its items by
\* convert_layout).
InitFields ==
    /\ fn \in {"convert_layout", "build_page_content"}
    /\ pc = "call"
    /\ output = NoOutput
    /\ \E t \in {"text-section", "hero"}, text \in BOOLEAN,
          it \in TextFieldItems, btn \in ButtonFieldItems,
          rand \in RandStreams :
          /\ fn = "convert_layout" => rand = Draw1Stream
          /\ input = [sections |->
                          <<[NoSection EXCEPT
                                !.type = t,
                                !.content = <<IF text THEN it ELSE btn>>]>>,
                      uploaded_images |-> <<>>, rand |-> rand]

NextFields ==
    \/ CallConvertLayout
    \/ CallBuildPageContent

SpecFields == InitFields /\ [][NextFields]_vars

FieldsDone == fn \in {"convert_layout", "build_page_content"} /\ pc = "done"

\* The item of the document and the block rendered for it: the first block
\* in the group of the section, or in the column of the row of the section.
FieldItem == input.sections[1].content[1]

RenderedItem ==
    IF fn = "convert_layout" THEN output[2].inner[1]
    ELSE output[1].inner[1].inner[1]

\* The alignment the item has once the alignment-propagation rule has been
\* applied, Absent when neither the item nor the rule gives one.
AlignGiven ==
    IF fn = "convert_layout"
    THEN apply_section_align(FieldItem,
                             resolve_section_align(input.sections[1])).align
    ELSE FieldItem.align

\* The block carries an attribute, a class or a style for the field.
CarriesColour(b) ==
    \/ HasAttr(b, "style.color.text")
    \/ HasAttr(b, "color")
    \/ HasClass(b, "has-text-color")
    \/ HasDecl(b, "color")

CarriesFontSize(b) ==
    \/ HasAttr(b, "style.typography.fontSize")
    \/ HasAttr(b, "fontSize")
    \/ HasDecl(b, "font-size")

CarriesAlignment(b) ==
    \/ HasAttr(b, "textAlign")
    \/ HasAttr(b, "align")
    \/ HasAttr(b, "hAlign")
    \/ HasAttr(b, "layout.justifyContent")
    \/ \E a \in {"left", "center", "right"} :
          HasClass(b, "has-text-align-" \o a) \/ HasClass(b, "kt-btn-align-" \o a)

CarriesBackground(b) ==
    \/ HasAttr(b, "style.color.background")
    \/ HasAttr(b, "background")
    \/ HasClass(b, "has-background")
    \/ HasDecl(b, "background-color")

CarriesRadius(b) ==
    \/ HasAttr(b, "style.border.radius")
    \/ HasAttr(b, "borderRadius")
    \/ HasDecl(b, "border-radius")

\* Nothing in the block of a heading or paragraph stands for a colour or a
\* font size the item has not.
TextFieldsNotInvented ==
    /\ FieldItem.color = Absent => ~CarriesColour(RenderedItem)
    /\ FieldItem.font_size = Absent => ~CarriesFontSize(RenderedItem)

\* Nothing in the block of the button stands for a background, a text
\* colour or a border radius its entry has not.
ButtonFieldsNotInvented ==
    LET entry == FieldItem.items[1]
        b == RenderedItem.inner[1]
    IN  /\ entry.bg_color = Absent => ~CarriesBackground(b)
        /\ entry.text_color = Absent => ~CarriesColour(b)
        /\ entry.border_radius = Absent => ~CarriesRadius(b)

\* C19: the markup convert_layout and build_page_content produce for a
\* content item carries no attribute, class or style for an optional
\* styling field (color, font_size, align; bg_color, text_color,
\* border_radius of a button entry) that is absent from the item and is not
\* supplied by the alignment-propagation rule.
C19_AbsentFieldsNotInvented ==
    FieldsDone =>
        /\ AlignGiven = Absent => ~CarriesAlignment(RenderedItem)
        /\ IF FieldItem.type = "buttons" THEN ButtonFieldsNotInvented
           ELSE TextFieldsNotInvented

\* What the code does.  Headings and paragraphs get nothing that is not
\* given, in both compilers.  The button of convert_layout gets a text
\* colour from bg_color when its style is "outline", and nothing else that
\* is not given.  The button of build_page_content always gets a
\* background, a text colour and a border radius, and its wrapper an
\* alignment.
FieldsInventedForButtons ==
    FieldsDone =>
        IF FieldItem.type # "buttons"
        THEN /\ TextFieldsNotInvented
             /\ AlignGiven = Absent => ~CarriesAlignment(RenderedItem)
        ELSE IF fn = "convert_layout"
        THEN /\ AlignGiven = Absent => ~CarriesAlignment(RenderedItem)
             /\ \/ ButtonFieldsNotInvented
                \/ /\ Get(FieldItem.items[1].style) = "outline"
                   /\ FieldItem.items[1].bg_color # Absent
        ELSE /\ CarriesAlignment(RenderedItem)
             /\ CarriesBackground(RenderedItem.inner[1])
             /\ CarriesColour(RenderedItem.inner[1])
             /\ CarriesRadius(RenderedItem.inner[1])

(***************************************************************************)
(* Calls of the builders of converter.py that emit a class list, with      *)
(* every combination of the arguments their class list depends on.         *)
(***************************************************************************)
ClassAligns == {None, "center", "left"}
ClassWidths == {None, "full", "wide"}

InitClasses ==
    /\ pc = "call"
    /\ output = NoOutput
    /\ \/ /\ fn \in {"_heading", "_paragraph"}
          /\ input \in [text : {"T"}, level : {2}, color : {None, "#333333"},
                        font_size : {None, "16px"}, align : ClassAligns]
       \/ /\ fn = "_button"
          /\ input \in [text : {"Go"}, url : {"#"}, bg_color : {None, "#ff0000"},
                        text_color : {None, "#ffffff"},
                        style_type : {"fill", "outline"},
                        border_radius : {None, "8px"}]
       \/ /\ fn = "_group"
          /\ input \in [inner : {<<>>}, bg_color : {None, "#333333"},
                        text_color : {None, "#ffffff"}, padding : {DictNone},
                        min_height : {None}, border_radius : {None},
                        align : ClassWidths, layout_type : {"constrained"}]
       \/ /\ fn = "_column"
          /\ input \in [inner : {<<>>}, width : {None},
                        bg_color : {None, "#f5f5f5"},
                        text_color : {None, "#ffffff"}, padding : {DictNone},
                        border_radius : {None},
                        border_color : {None, "#e0e0e0"},
                        border_width : {None, "1px"}]
       \/ /\ fn = "_cover"
          /\ input \in [inner : {<<>>}, bg_image_url : {None, "hero.jpg"},
                        dim_ratio : {50}, min_height : {600},
                        overlay_color : {None}, align : ClassWidths]

CallHeading ==
    /\ fn = "_heading"
    /\ pc = "call"
    /\ output' = heading(input.text, input.level, input.color,
                         input.font_size, input.align)
    /\ pc' = "done"
    /\ UNCHANGED <<fn, input>>

CallParagraph ==
    /\ fn = "_paragraph"
    /\ pc = "call"
    /\ output' = paragraph(input.text, input.color, input.font_size,
                           input.align)
    /\ pc' = "done"
    /\ UNCHANGED <<fn, input>>

CallButton ==
    /\ fn = "_button"
    /\ pc = "call"
    /\ output' = button(input.text, input.url, input.bg_color,
                        input.text_color, input.style_type,
                        input.border_radius)
    /\ pc' = "done"
    /\ UNCHANGED <<fn, input>>

NextClasses ==
    \/ CallHeading
    \/ CallParagraph
    \/ CallButton
    \/ CallGroup
    \/ CallColumn
    \/ CallCover

SpecClasses == InitClasses /\ [][NextClasses]_vars

ClassesDone ==
    /\ fn \in {"_heading", "_paragraph", "_button", "_group", "_column", "_cover"}
    /\ pc = "done"

BaseClasses == {"wp-block-heading", "wp-block-button__link", "wp-block-group", "wp-block-column", "wp-block-cover"}

AlignmentClasses ==
    {"has-text-align-" \o a : a \in ClassAligns \ {None}}
    \cup {"align" \o a : a \in ClassWidths \ {None}}

PresenceClasses == {"has-text-color", "has-background", "has-border-color"}

\* The place of a class in the order base, alignment, colour/background
\* presence; 0 for a class of none of the three kinds.
ClassRank(c) ==
    CASE c \in BaseClasses -> 1
      [] c \in AlignmentClasses -> 2
      [] c \in PresenceClasses -> 3
      [] OTHER -> 0

\* C20: in the class list of every builder of converter.py (heading,
\* paragraph, button link, group, column, cover), for every combination of
\* arguments, the base class comes first, then the alignment class, then
\* the colour/background-presence classes.
C20_ClassOrder ==
    ClassesDone =>
        \A i, j \in 1..Len(output.classes) :
            (/\ i < j
             /\ ClassRank(output.classes[i]) # 0
             /\ ClassRank(output.classes[j]) # 0)
            => ClassRank(output.classes[i]) <= ClassRank(output.classes[j])

\* The order in which each builder appends its classes.
CLASS_ORDER(builder) ==
    CASE builder = "_heading" ->
           <<"wp-block-heading", "has-text-color", "has-text-align-center",
             "has-text-align-left">>
      [] builder = "_paragraph" ->
           <<"has-text-align-center", "has-text-align-left", "has-text-color">>
      [] builder = "_button" ->
           <<"wp-block-button__link", "has-background", "has-text-color",
             "has-border-color", "wp-element-button">>
      [] builder = "_group" ->
           <<"wp-block-group", "alignfull", "alignwide", "has-text-color",
             "has-background">>
      [] builder = "_column" ->
           <<"wp-block-column", "has-border-color", "has-text-color",
             "has-background">>
      [] builder = "_cover" ->
           <<"wp-block-cover", "alignfull", "alignwide", "is-dark">>

\* The place of a class in a sequence of distinct classes, 0 if not there.
PlaceIn(order, c) ==
    IF \E k \in 1..Len(order) : order[k] = c
    THEN CHOOSE k \in 1..Len(order) : order[k] = c
    ELSE 0

\* What the code does: each builder has one fixed order, so the relative
\* order of two classes does not depend on the other arguments; in the
\* order of _heading the colour class precedes the alignment class.
ClassOrderFixedPerBuilder ==
    ClassesDone =>
        /\ \A i \in 1..Len(output.classes) :
              PlaceIn(CLASS_ORDER(fn), output.classes[i]) # 0
        /\ \A i, j \in 1..Len(output.classes) :
              i < j => PlaceIn(CLASS_ORDER(fn), output.classes[i])
                       < PlaceIn(CLASS_ORDER(fn), output.classes[j])

(***************************************************************************)
(* Calls of convert_section on columns / features / stats sections of one  *)
(* card, whose background and border fields are absent, given in its       *)
(* card_style or given as the card's own fields.                           *)
(***************************************************************************)
CardTypes == {"columns", "features", "stats"}

\* Where a field of the card is given.
CardPlaces == {"absent", "card_style", "item"}

\* The card with the value of each field at its place.
CardOf(bg, bc, bw) ==
    [NoCard EXCEPT
        !.background_color = IF bg = "item" THEN "#f5f5f5" ELSE Absent,
        !.border_color = IF bc = "item" THEN "#ff0000" ELSE Absent,
        !.border_width = IF bw = "item" THEN "3px" ELSE Absent,
        !.card_style.background_color =
            IF bg = "card_style" THEN "#f5f5f5" ELSE Absent,
        !.card_style.border_color =
            IF bc = "card_style" THEN "#ff0000" ELSE Absent,
        !.card_style.border_width =
            IF bw = "card_style" THEN "3px" ELSE Absent]

InitCards ==
    /\ fn = "convert_section"
    /\ pc = "call"
    /\ output = NoOutput
    /\ \E t \in CardTypes, bg \in CardPlaces, bc \in CardPlaces,
          bw \in CardPlaces :
          input = [NoSection EXCEPT !.type = t,
                                    !.items = <<CardOf(bg, bc, bw)>>]

NextCards == CallConvertSection

SpecCards == InitCards /\ [][NextCards]_vars

CardsDone ==
    /\ fn = "convert_section"
    /\ pc = "done"
    /\ Get(input.type) \in CardTypes
    /\ Len(input.items) = 1

\* The card of the section and the column emitted for it.
TheCard == input.items[1]
TheColumn == output[1].inner[1]

\* The value a field of the card is given, None when it is given nowhere.
CardField(in_style, own) == Or(Get(in_style), Get(own))

CardBackground ==
    CardField(TheCard.card_style.background_color, TheCard.background_color)
CardBorderColor ==
    CardField(TheCard.card_style.border_color, TheCard.border_color)
CardBorderWidth ==
    CardField(TheCard.card_style.border_width, TheCard.border_width)

\* The value of an attribute of the column, None when it has none.
ColumnAttr(key) ==
    IF HasAttr(TheColumn, key) THEN AttrOf(TheColumn, key) ELSE None

\* C21: a card of a columns / features / stats section gets the default
\* border (colour #e0e0e0, width 1px) if and only if it has neither an
\* explicit background colour nor an explicit border; a card with an
\* explicit background colour or any explicit border field keeps its own
\* border values unchanged in the emitted column.
C21_DefaultCardBorder ==
    CardsDone =>
        IF /\ ~Truthy(CardBackground)
           /\ ~Truthy(CardBorderColor)
           /\ ~Truthy(CardBorderWidth)
        THEN /\ ColumnAttr("style.border.color") = "#e0e0e0"
             /\ ColumnAttr("style.border.width") = "1px"
        ELSE /\ ColumnAttr("style.border.color") = CardBorderColor
             /\ ColumnAttr("style.border.width") = CardBorderWidth

\* What the code does: the default border is given to every card without
\* a background colour and without a border colour, and it replaces the
\* border width the card may have.
DefaultBorderByColour ==
    CardsDone =>
        IF ~Truthy(CardBackground) /\ ~Truthy(CardBorderColor)
        THEN /\ ColumnAttr("style.border.color") = "#e0e0e0"
             /\ ColumnAttr("style.border.width") = "1px"
        ELSE /\ ColumnAttr("style.border.color") = CardBorderColor
             /\ ColumnAttr("style.border.width") = CardBorderWidth

(***************************************************************************)
(* Calls of convert_section on image-gallery and logo-strip sections of    *)
(* 0 to MaxGridImages images.                                              *)
(***************************************************************************)
\* Most images of a gallery or logo strip of the inputs.
MaxGridImages == 9

GridTypes == {"image-gallery", "logo-strip"}

GridImage ==
    [description |-> Absent, url |-> "a.jpg", caption_title |-> Absent,
     caption_meta |-> Absent]

InitGrid ==
    /\ fn = "convert_section"
    /\ pc = "call"
    /\ output = NoOutput
    /\ \E t \in GridTypes, n \in 0..MaxGridImages, k \in {AbsentInt, 2, 5},
          bg \in {Absent, "#f5f5f5"} :
          input = [NoSection EXCEPT !.type = t,
                                    !.images = [i \in 1..n |-> GridImage],
                                    !.layout.columns = k,
                                    !.background_color = bg]

NextGrid == CallConvertSection

SpecGrid == InitGrid /\ [][NextGrid]_vars

GridDone ==
    /\ fn = "convert_section"
    /\ pc = "done"
    /\ Get(input.type) \in GridTypes

\* The gallery of the section: the section itself, or the last block of
\* the group that wraps it.
GridGallery ==
    IF output[1].block = "wp:gallery" THEN output[1]
    ELSE output[1].inner[Len(output[1].inner)]

\* The k of each class "columns-<k>" of the gallery.
GridClassCounts ==
    {k \in 0..(MaxGridImages + 1) : HasClass(GridGallery, "columns-" \o ToString(k))}

\* C22: an image-gallery section of n images without layout.columns has
\* min(n, 3) columns, a logo-strip section of n >= 1 images has min(n, 8)
\* columns (never more than 8), and the "columns" attribute and the
\* "columns-<k>" class of the gallery carry the same k.
C22_GridColumnCounts ==
    GridDone =>
        LET n == Len(input.images)
            k == AttrOf(GridGallery, "columns")
        IN  /\ GridClassCounts = {k}
            /\ (input.type = "image-gallery" /\ input.layout.columns = AbsentInt)
                  => k = Min(n, 3)
            /\ (input.type = "logo-strip" /\ n >= 1)
                  => k = Min(n, 8) /\ k <= 8

\* A logo strip of more than 8 images has been converted.
C22_Witness ==
    /\ GridDone
    /\ input.type = "logo-strip"
    /\ Len(input.images) > 8
    /\ AttrOf(GridGallery, "columns") = 8

(***************************************************************************)
(* Calls of build_page_content on documents of one section with one        *)
(* heading, whose font size is absent, well-formed or garbled.             *)
(***************************************************************************)
\* Absent, sizes int() reads, the empty string, and strings int() rejects.
HeadingSizes == {Absent, "48px", "16px", "2em", "", "1.5em", "large"}

InitFontSize ==
    /\ fn = "build_page_content"
    /\ pc = "call"
    /\ output = NoOutput
    /\ \E t \in {"text-section", "hero"}, z \in HeadingSizes,
          c \in FieldColours, a \in FieldAligns, rand \in RandStreams :
          input = [sections |->
                      <<[NoSection EXCEPT
                            !.type = t,
                            !.content = <<[NoItem EXCEPT !.type = "heading",
                                                         !.text = "T",
                                                         !.color = c,
                                                         !.font_size = z,
                                                         !.align = a]>>]>>,
                   uploaded_images |-> <<>>, rand |-> rand]

NextFontSize == CallBuildPageContent

SpecFontSize == InitFontSize /\ [][NextFontSize]_vars

\* The call has returned or raised.
FontSizeCalled == fn = "build_page_content" /\ pc # "call"

HeadingSize == input.sections[1].content[1].font_size

\* C23: for every heading item given to build_page_content, whatever its
\* font_size, the builder does not raise, and the block of the heading
\* carries the parsed positive size as fontSize or no fontSize at all,
\* never a size of 0.
C23_GarbledFontSizeOmitted ==
    FontSizeCalled =>
        /\ pc = "done"
        /\ \/ ~HasAttr(RenderedItem, "fontSize")
           \/ /\ HasKey(PX_TABLE, HeadingSize)
              /\ AttrOf(RenderedItem, "fontSize")[1] = Item(PX_TABLE, HeadingSize)
              /\ AttrOf(RenderedItem, "fontSize")[1] > 0

\* What the code does: the call raises ValueError exactly on a size int()
\* rejects; otherwise the heading has the parsed size, and none when the
\* size is absent or parses to 0.
GarbledFontSizeRaises ==
    FontSizeCalled =>
        IF HeadingSize # Absent /\ ~HasKey(PX_TABLE, HeadingSize)
        THEN pc = "raised" /\ output = "ValueError"
        ELSE /\ pc = "done"
             /\ IF HeadingSize = Absent \/ Item(PX_TABLE, HeadingSize) = 0
                THEN ~HasAttr(RenderedItem, "fontSize")
                ELSE AttrOf(RenderedItem, "fontSize")
                        = <<Item(PX_TABLE, HeadingSize), "", "">>

(***************************************************************************)
(* Calls of the heading and paragraph builders of the portable dialect:    *)
(* _heading and _paragraph of the converter, heading and paragraph of      *)
(* gutenberg_blocks.                                                       *)
(***************************************************************************)
\* The style dicts a caller builds, as _build_content_item does: a text
\* colour, a font size, both or neither.
BodyStyles ==
    {   SeqIf(c, << <<"color.text", "#333333">> >>)
     \o SeqIf(z, << <<"typography.fontSize", "16px">> >>) : c, z \in BOOLEAN}

InitBodies ==
    /\ pc = "call"
    /\ output = NoOutput
    /\ \/ /\ fn \in {"_heading", "_paragraph"}
          /\ input \in [text : {"T"}, level : {2, 3}, color : {None, "#333333"},
                        font_size : {None, "16px"}, align : ClassAligns]
       \/ /\ fn = "heading"
          /\ input \in [text : {"T"}, level : {2, 3}, text_align : ClassAligns,
                        text_color : {None, "primary"},
                        font_size : {None, "large"}, style : BodyStyles]
       \/ /\ fn = "paragraph"
          /\ input \in [text : {"T"}, align : ClassAligns, style : BodyStyles]

CallGbHeading ==
    /\ fn = "heading"
    /\ pc = "call"
    /\ output' = gb_heading(input.text, input.level, input.text_align,
                            input.text_color, input.font_size, input.style)
    /\ pc' = "done"
    /\ UNCHANGED <<fn, input>>

\* paragraph() with no preset colour or size, as the page builder calls it.
CallGbParagraph ==
    /\ fn = "paragraph"
    /\ pc = "call"
    /\ output' = gb_paragraph(input.text, input.align, input.style)
    /\ pc' = "done"
    /\ UNCHANGED <<fn, input>>

NextBodies ==
    \/ CallHeading
    \/ CallParagraph
    \/ CallGbHeading
    \/ CallGbParagraph

SpecBodies == InitBodies /\ [][NextBodies]_vars

BodiesDone ==
    /\ fn \in {"_heading", "_paragraph", "heading", "paragraph"}
    /\ pc = "done"

\* The start marker names a text colour or a font size ...
MarkerColour(b) == HasAttr(b, "style.color.text") \/ HasAttr(b, "textColor")

MarkerFontSize(b) ==
    HasAttr(b, "style.typography.fontSize") \/ HasAttr(b, "fontSize")

\* ... and the element expresses one, by a class or an inline declaration.
BodyColour(b) == HasClass(b, "has-text-color") \/ HasDecl(b, "color")

BodyFontSize(b) ==
    HasDecl(b, "font-size") \/ HasClass(b, "has-large-font-size")

\* C24: for every heading and paragraph of a portable-dialect builder, a
\* text colour or a font size is in the attributes of the start marker
\* exactly when the element expresses it as a class or an inline style
\* declaration.
C24_BodiesExpressStyling ==
    BodiesDone =>
        /\ MarkerColour(output) <=> BodyColour(output)
        /\ MarkerFontSize(output) <=> BodyFontSize(output)

\* What the code does: the two builders of the converter and heading() of
\* gutenberg_blocks agree with their markers; paragraph() of
\* gutenberg_blocks writes its style dict to the marker alone.
BodiesExpressStylingButGbParagraph ==
    BodiesDone =>
        IF fn = "paragraph"
        THEN /\ ~BodyColour(output) /\ ~BodyFontSize(output)
             /\ MarkerColour(output) <=> HasKey(input.style, "color.text")
             /\ MarkerFontSize(output)
                   <=> HasKey(input.style, "typography.fontSize")
        ELSE /\ MarkerColour(output) <=> BodyColour(output)
             /\ MarkerFontSize(output) <=> BodyFontSize(output)

(***************************************************************************)
(* Calls of _gallery, directly and through convert_section on              *)
(* image-gallery sections (crop=True) and logo-strip sections (crop=False).*)
(***************************************************************************)
\* Most images of a gallery handed to _gallery.
MaxCropImages == 3

CropImage == [alt |-> "Logo", url |-> "a.jpg", caption |-> None]

InitCrop ==
    /\ pc = "call"
    /\ output = NoOutput
    /\ \/ /\ fn = "_gallery"
          /\ \E n \in 0..MaxCropImages, k \in 1..8, crop \in BOOLEAN :
                input = [images |-> [i \in 1..n |-> CropImage],
                         columns |-> k, crop |-> crop]
       \/ /\ fn = "convert_section"
          /\ \E t \in GridTypes, n \in 0..MaxCropImages,
                bg \in {Absent, "#f5f5f5"} :
                input = [NoSection EXCEPT !.type = t,
                                          !.images = [i \in 1..n |-> GridImage],
                                          !.background_color = bg]

CallGallery ==
    /\ fn = "_gallery"
    /\ pc = "call"
    /\ output' = gallery(input.images, input.columns, input.crop)
    /\ pc' = "done"
    /\ UNCHANGED <<fn, input>>

NextCrop ==
    \/ CallGallery
    \/ CallConvertSection

SpecCrop == InitCrop /\ [][NextCrop]_vars

CropDone == fn \in {"_gallery", "convert_section"} /\ pc = "done"

\* The gallery the call gave, and the crop argument _gallery was given.
CropGallery == IF fn = "_gallery" THEN output ELSE GridGallery

CropArgument ==
    IF fn = "_gallery" THEN input.crop ELSE input.type = "image-gallery"

\* C25: for every call of _gallery, the figure has the class "is-cropped"
\* exactly when the attributes carry imageCrop = true; the gallery of a
\* logo strip (crop=False) has neither.
C25_CropConsistent ==
    CropDone =>
        /\ HasClass(CropGallery, "is-cropped")
              <=> (HasAttr(CropGallery, "imageCrop")
                   /\ AttrOf(CropGallery, "imageCrop") = "true")
        /\ (fn = "convert_section" /\ input.type = "logo-strip")
              => /\ ~HasClass(CropGallery, "is-cropped")
                 /\ ~HasAttr(CropGallery, "imageCrop")

\* What the code does: the class is written on every gallery, the
\* attribute only when crop is true.
CropClassAlways ==
    CropDone =>
        /\ HasClass(CropGallery, "is-cropped")
        /\ HasAttr(CropGallery, "imageCrop") <=> CropArgument

(***************************************************************************)
(* Calls of _column, directly and through convert_section on the cards of  *)
(* a columns section.                                                      *)
(***************************************************************************)
InitBorder ==
    /\ pc = "call"
    /\ output = NoOutput
    /\ \/ /\ fn = "_column"
          /\ input \in [inner : {<<>>}, width : {None},
                        bg_color : {None, "#f5f5f5"},
                        text_color : {None, "#ffffff"}, padding : {DictNone},
                        border_radius : {None, "8px"},
                        border_color : {None, "#ff0000"},
                        border_width : {None, "3px"}]
       \/ /\ fn = "convert_section"
          /\ \E t \in CardTypes, bg \in CardPlaces, bc \in CardPlaces,
                bw \in CardPlaces :
                input = [NoSection EXCEPT !.type = t,
                                          !.items = <<CardOf(bg, bc, bw)>>]

NextBorder ==
    \/ CallColumn
    \/ CallConvertSection

SpecBorder == InitBorder /\ [][NextBorder]_vars

BorderDone == fn \in {"_column", "convert_section"} /\ pc = "done"

\* The column the call gave, and the border arguments _column was given.
BorderColumn == IF fn = "_column" THEN output ELSE TheColumn

BorderColorArgument ==
    IF fn = "_column" THEN input.border_color
    ELSE IF ~Truthy(CardBackground) /\ ~Truthy(CardBorderColor) THEN "#e0e0e0"
    ELSE CardBorderColor

BorderWidthArgument ==
    IF fn = "_column" THEN input.border_width
    ELSE IF ~Truthy(CardBackground) /\ ~Truthy(CardBorderColor) THEN "1px"
    ELSE CardBorderWidth

\* C26: for every call of _column, "has-border-color" is among the classes
\* exactly when the inline style has a border-color declaration, also for
\* a card with a background colour and a border width but no border colour.
C26_BorderClassConsistent ==
    BorderDone =>
        (HasClass(BorderColumn, "has-border-color")
            <=> HasDecl(BorderColumn, "border-color"))

\* What the code does: the class is written when a border colour or a
\* border width is given, the declaration when a border colour is.
BorderClassByColourOrWidth ==
    BorderDone =>
        /\ HasClass(BorderColumn, "has-border-color")
              <=> (Truthy(BorderColorArgument) \/ Truthy(BorderWidthArgument))
        /\ HasDecl(BorderColumn, "border-color") <=> Truthy(BorderColorArgument)

\* The groups of a footer content: one for a non-empty content, and one
\* more for each heading after the first item.
FooterGroupCount ==
    LET n == Len(input.content) IN
      (IF n > 0 THEN 1 ELSE 0)
    + Cardinality({i \in 2..n : Get(input.content[i].type) = "heading"})

\* C27: in _convert_footer with layout.columns = k > 1 the number of
\* column blocks is max(k, g), g being the number of groups of the heading
\* partition: the g groups come first, none merged or dropped, and are
\* followed by k - g empty columns when g < k.
C27_FooterColumnCount ==
    FooterColumnsDone =>
        LET k == input.layout.columns
            g == FooterGroupCount
        IN  /\ Len(FooterColumns) = (IF k > g THEN k ELSE g)
            /\ Len(FooterColumns) >= k
            /\ \A c \in 1..Len(FooterColumns) :
                  (FooterColumns[c].inner = <<>>) <=> (c > g)
            /\ Flatten([c \in 1..g |-> FooterColumns[c].inner])
                  = ConvertAll(input.content)

\* A footer of more groups than layout.columns has been converted.
C27_Witness ==
    /\ FooterColumnsDone
    /\ FooterGroupCount > input.layout.columns
    /\ Len(FooterColumns) > input.layout.columns

(***************************************************************************)
(* Calls of convert_section on cta and footer sections that carry a        *)
(* structured background, a flat background_color, both or neither.        *)
(***************************************************************************)
PrecedenceColours == {"#ff0000", "#00ff00", "#0000ff", "#333333", "#ffffff"}

InitPrecedence ==
    /\ fn = "convert_section"
    /\ pc = "call"
    /\ output = NoOutput
    /\ \E t \in {"cta", "footer"}, A \in PrecedenceColours \cup {Absent, ""},
          B \in PrecedenceColours \cup {Absent} :
          input = [NoSection EXCEPT
                      !.type = t,
                      !.background.type = IF A = Absent THEN Absent ELSE "color",
                      !.background.value = A,
                      !.background_color = B]

NextPrecedence == CallConvertSection

SpecPrecedence == InitPrecedence /\ [][NextPrecedence]_vars

\* The section carries two different colours, one in each form.
PrecedenceConflict ==
    /\ fn = "convert_section"
    /\ pc = "done"
    /\ input.type \in {"cta", "footer"}
    /\ input.background.value \in PrecedenceColours
    /\ input.background_color \in PrecedenceColours
    /\ input.background.value # input.background_color

\* C28: for a section with a structured background {value: A} and a flat
\* background_color B, A and B different non-empty colours, _convert_cta
\* uses A and _convert_footer uses B.
C28_BackgroundPrecedence ==
    PrecedenceConflict =>
        AttrOf(output[1], "style.color.background")
            = (IF input.type = "cta" THEN input.background.value
               ELSE input.background_color)

\* A footer with two different colours has been converted to a group of
\* the flat colour.
C28_Witness ==
    /\ PrecedenceConflict
    /\ input.type = "footer"
    /\ HasDecl(output[1], "background-color")
    /\ AttrOf(output[1], "style.color.background") = input.background_color

(***************************************************************************)
(* Calls of _build_content_item on items of the kinds it handles, with     *)
(* and without their optional fields.                                      *)
(***************************************************************************)
\* The kinds _build_content_item has a branch for, and the block of each.
BUILDER_KIND_BLOCKS ==
    << <<"heading", "wp:kadence/advancedheading">>,
       <<"paragraph", "wp:paragraph">>,
       <<"image", "wp:kadence/image">>,
       <<"buttons", "wp:kadence/advancedbtn">>,
       <<"list", "wp:list">>,
       <<"spacer", "wp:kadence/spacer">>,
       <<"separator", "wp:separator">>,
       <<"quote", "wp:quote">>,
       <<"icon_list", "wp:kadence/iconlist">>,
       <<"image-gallery", "wp:kadence/rowlayout">>,
       <<"columns", "wp:kadence/rowlayout">> >>

\* An item of the i-th kind with no field but its type ...
BareItem(i) == [NoItem EXCEPT !.type = BUILDER_KIND_BLOCKS[i][1]]

\* ... which for an image gallery stands for a missing and for an empty
\* images list alike; or an item that has the fields of its kind.
InitKinds ==
    /\ fn = "_build_content_item"
    /\ pc = "call"
    /\ output = NoOutput
    /\ \E i \in 1..Len(BUILDER_KIND_BLOCKS), k \in 0..Len(KnownItems),
          m \in ImgMaps, r \in RandStreams :
          input = [item |-> IF k = 0 THEN BareItem(i) ELSE KnownItems[k],
                   img_map |-> m, rand |-> r]

NextKinds == CallBuildContentItem

SpecKinds == InitKinds /\ [][NextKinds]_vars

KindsDone ==
    /\ fn = "_build_content_item"
    /\ pc = "done"
    /\ HasKey(BUILDER_KIND_BLOCKS, input.item.type)

\* C29: for every content item of a kind _build_content_item handles, the
\* result is a block of that kind and never the "Unknown: ..." comment,
\* whatever optional fields the item has or lacks, an image gallery with
\* no images included.
C29_PlaceholderOnlyForUnknown ==
    KindsDone =>
        /\ output.block # "comment"
        /\ output.block = Item(BUILDER_KIND_BLOCKS, input.item.type)

\* What the code does: an image gallery without images falls through to
\* the comment; every other item of a handled kind gives its block.
PlaceholderForEmptyGallery ==
    KindsDone =>
        IF input.item.type = "image-gallery" /\ input.item.images = <<>>
        THEN output = unknown_item("image-gallery")
        ELSE output.block = Item(BUILDER_KIND_BLOCKS, input.item.type)

\* The dim ratios halfway between two multiples of ten, and what _cover
\* gives for each.
DIM_TIES ==
    << <<5, 0>>, <<15, 20>>, <<25, 20>>, <<35, 40>>, <<45, 40>>, <<55, 60>>,
       <<65, 60>>, <<75, 80>>, <<85, 80>>, <<95, 100>> >>

\* C30: for every integer dim_ratio in 0..100 that ends in 5, _cover
\* resolves the tie to the even multiple of ten (5 gives 0, 15 gives 20,
\* 25 gives 20, 45 gives 40, 55 gives 60, 65 gives 60, 95 gives 100), which
\* is not the multiple round-half-up gives whenever the two differ.
C30_DimRatioTiesToEven ==
    (CoverDone /\ input.dim_ratio % 10 = 5) =>
        LET m == output.dim_modifier
            d == input.dim_ratio
        IN  /\ m \in {d - 5, d + 5}
            /\ (m \div 10) % 2 = 0
            /\ m = Item(DIM_TIES, d)
            /\ ((d \div 10) % 2 = 0) => m # d + 5
            /\ output.span_classes[2] = "has-background-dim-" \o ToString(m)

\* The cover built with dim_ratio 25: the tie goes down to 20.
C30_Witness ==
    /\ CoverDone
    /\ input.dim_ratio = 25
    /\ output.dim_modifier = 20
    /\ output.span_classes[2] = "has-background-dim-20"

====
